---- MODULE Spec2Model ----
(***************************************************************************)
(* A model of the pysnyk client: the transport operations of SnykClient    *)
(* (get, post, put, patch, delete) with their retry loop, the cursor       *)
(* pagination walker get_rest_pages, the listings of the managers (the     *)
(* recursive ones of organizations, projects and dependencies, the fan-out *)
(* of client.projects, members, licenses, integrations), get, first and   *)
(* filter on top of them, the mapping-shaped and the singleton strategies, *)
(* and Manager.factory.                                                    *)
(*                                                                         *)
(* Strings that the code takes apart (paths, URLs, query strings) are      *)
(* records; dictionaries of query parameters are functions over ParamNames *)
(* in which a missing key holds Absent.  A Python value v of a parameter   *)
(* is written with its type: "bool:True", "int:10", "str:true".            *)
(***************************************************************************)
EXTENDS Integers, Sequences, FiniteSets, TLC

VARIABLES
    tries,        \* SnykClient.tries
    version,      \* SnykClient.version (Absent when None)
    server,       \* what the server holds: page id -> page body, fixed once served
    op,           \* the operation the caller invoked ("none" before the call)
    pc,           \* where that operation is: "idle", "loop", "returned", "raised"
    args,         \* the arguments of the call
    page_data,    \* get_rest_pages: the body of the current page
    return_data,  \* the accumulator of the running listing
    cursor,       \* the recursive listings: the path and the params the next
                  \* recursion asks for
    calls,        \* the transport calls made so far, in order
    retried,      \* whether some transport call so far took a second attempt
    attempts,     \* a transport operation called on its own: the statuses of
                  \* the HTTP requests it issued, in order
    result,       \* what the caller got back (a list) once pc = "returned"
    exc,          \* the exception the caller got once pc = "raised"
    defaults,     \* the dictionaries that are the default value of `params` in
                  \* post, put and patch: one object each for the whole process
    earlier,      \* the calls the process made before this one
    fanout,       \* client.projects: the organizations listed, the one the loop
                  \* is at, and the projects collected so far
    answer        \* what a manager's get, first or filter made of the list
                  \* that all() returned; what Manager.factory made of klass

vars == <<tries, version, server, op, pc, args, page_data, return_data,
          cursor, calls, retried, attempts, result, exc, defaults, earlier,
          fanout, answer>>

----------------------------------------------------------------------------
(* Bounds *)

MaxTries == 2
NPages == 2
MaxCalls == 3
MaxEarlier == 1
MaxFanOutCalls == 4

\* The requests a listing may make: the fan-out over the organizations has a
\* listing inside a listing, and a bound of its own.
CallsCap(inside) == IF inside THEN MaxFanOutCalls ELSE MaxCalls

(* Program constants *)

ServerError == 500
ResultsPerPage == 1000

----------------------------------------------------------------------------
(* Values *)

Absent == "absent"
LatestVersion == "2024-06-21"
ClientVersions == {Absent, "2023-01-01"}

ParamNames == {"version", "limit", "flag", "starting_after", "tags",
               "meta.latest_issue_counts", "meta.latest_dependency_total",
               "expand", "page", "perPage"}

NoParams == [k \in ParamNames |-> Absent]

\* Python truthiness of a dict: it has some key.
IsEmpty(params) == \A k \in ParamNames : params[k] = Absent

AllPages == <<"p1", "p2", "p3", "p4", "p5", "p6">>
Pages == {AllPages[i] : i \in 1..NPages}
PageIndex(p) == CHOOSE i \in 1..Len(AllPages) : AllPages[i] = p

\* The answer to one attempt: a status code, or no response object at all
\* (the method gave back None).
NoResponse == 0
Statuses == {200, 404, 503, NoResponse}

----------------------------------------------------------------------------
(* Transport: SnykClient.request and retry_call *)

\* requests.Response.ok, which is also the truth value of a Response.
Ok(status) == status < 400

\* SnykClient.request: the exception one attempt ends in, "none" when it
\* returns the response.  `not resp` is true of None and of every response
\* that is not ok; the warning logged before the raise reads resp.text.
RequestRaises(status) ==
    IF status = NoResponse THEN "AttributeError"
    ELSE IF ~Ok(status) \/ status >= ServerError THEN "SnykHTTPError"
    ELSE "none"

\* The exceptions= argument each operation gives retry_call: post names
\* SnykHTTPError, the others leave the default (Exception).
Catches(verb, e) == IF verb = "POST" THEN e = "SnykHTTPError" ELSE TRUE

\* retry_call's loop from attempt i on, with `left` tries left: the number of
\* attempts made, the exception that left the loop ("none": it returned) and
\* the status of the last response.
RECURSIVE RetryLoop(_, _, _, _)

\* A loop that never tries again.
RetryLoopGivesUpEarly(verb, script, i, left) ==
    LET e == RequestRaises(script[i])
    IN  [attempts |-> i, exc |-> e, status |-> script[i]]

\* retry_call's loop from attempt i on, with `left` tries left.
RetryLoop(verb, script, i, left) ==
    LET e == RequestRaises(script[i])
    IN  IF e = "none"
        THEN [attempts |-> i, exc |-> "none", status |-> script[i]]
        ELSE IF Catches(verb, e) /\ left - 1 # 0
             THEN RetryLoop(verb, script, i + 1, left - 1)
             ELSE [attempts |-> i, exc |-> e, status |-> script[i]]

\* retry_call followed by the operation's own `if not resp.ok` check.
RetryCall(verb, script, n) ==
    LET r == RetryLoop(verb, script, 1, n)
    IN  IF r.exc = "none" /\ ~Ok(r.status)
        THEN [r EXCEPT !.exc = "SnykHTTPError"]
        ELSE r

----------------------------------------------------------------------------
(* Paths and the requests the transport operations build *)

Uuids == {"11111111-1111-4111-8111-111111111111",
          "22222222-2222-4222-8222-222222222222"}

\* The id of the organization a manager is made for.
OrgId == "11111111-1111-4111-8111-111111111111"

\* A path: whether it starts with a slash, its segments, and the query
\* string it embeds (a next link comes with one).
MkPath(slash, segs, q) == [slash |-> slash, segs |-> segs, q |-> q]

\* utils.cleanup_path: the path without its leading slash.
cleanup_path(path) == [path EXCEPT !.slash = FALSE]

\* A test that takes every four-segment org/../project/.. path, whatever its
\* ids look like.
is_v1_project_path_any_ids(path) ==
    /\ ~path.slash
    /\ IsEmpty(path.q)
    /\ Len(path.segs) = 4
    /\ path.segs[1] = "org" /\ path.segs[3] = "project"

\* SnykClient.__is_v1_project_path: ^org/<uuid>/project/<uuid>$
is_v1_project_path(path) ==
    /\ ~path.slash
    /\ IsEmpty(path.q)
    /\ Len(path.segs) = 4
    /\ path.segs[1] = "org" /\ path.segs[2] \in Uuids
    /\ path.segs[3] = "project" /\ path.segs[4] \in Uuids

\* str(v).lower() of a bool, every other value unchanged.
LowerBool(v) ==
    CASE v = "bool:True" -> "str:true"
      [] v = "bool:False" -> "str:false"
      [] OTHER -> v

\* `self.version or self.__latest_version`
VersionOrLatest == IF version # Absent THEN version ELSE LatestVersion

\* A default that does not look at the version of the client.
WithLatestVersion(params) ==
    IF params["version"] = Absent
    THEN [params EXCEPT !["version"] = LatestVersion]
    ELSE params

\* `if "version" not in params: params["version"] = self.version or
\* self.__latest_version`
WithDefaultVersion(params) ==
    IF params["version"] = Absent
    THEN [params EXCEPT !["version"] = VersionOrLatest]
    ELSE params

\* Headers: the two the model follows.  Absent: the header is not there.
HeaderNames == {"Authorization", "Content-Type"}

NoHeaders == [h \in HeaderNames |-> Absent]

\* self.api_headers: "token %s" % self.api_token
api_headers == [NoHeaders EXCEPT !["Authorization"] = "token api_token"]

api_post_headers == [api_headers EXCEPT !["Content-Type"] = "application/json"]

api_patch_headers ==
    [api_headers EXCEPT !["Content-Type"] = "application/vnd.api+json"]

\* {**a, **b} of two header mappings
MergeHeaders(a, b) == [h \in HeaderNames |-> IF b[h] # Absent THEN b[h] ELSE a[h]]

Request(verb, base, path, qversion, params, headers) ==
    [verb |-> verb, base |-> base, path |-> path, qversion |-> qversion,
     params |-> params, headers |-> headers]

\* A get that does not look at exclude_version and exclude_params.
GetRequestIgnoresExclude(path, params, v, exclude_version, exclude_params) ==
    LET p == cleanup_path(path)
        base == IF v # Absent THEN "rest" ELSE "v1"
        qversion == IF v # Absent THEN v ELSE Absent
        p1 == IF params["version"] = Absent /\ version # Absent
              THEN [params EXCEPT !["version"] = IF v # Absent THEN v ELSE version]
              ELSE params
        p2 == [k \in ParamNames |-> LowerBool(p1[k])]
        p3 == IF p.q["limit"] # Absent THEN [p2 EXCEPT !["limit"] = Absent] ELSE p2
    IN  IF ~IsEmpty(params) \/ version # Absent
        THEN Request("GET", base, p, qversion, p3, api_headers)
        ELSE Request("GET", base, p, qversion, NoParams, api_headers)

\* A get that keeps the caller's limit next to the one in the path.
GetRequestKeepsLimit(path, params, v, exclude_version, exclude_params) ==
    LET p == cleanup_path(path)
        base == IF v # Absent THEN "rest" ELSE "v1"
        qversion == IF v # Absent /\ ~exclude_version THEN v ELSE Absent
        p1 == IF params["version"] = Absent /\ version # Absent /\ ~exclude_version
              THEN [params EXCEPT !["version"] = IF v # Absent THEN v ELSE version]
              ELSE params
        p2 == [k \in ParamNames |-> LowerBool(p1[k])]
    IN  IF (~IsEmpty(params) \/ version # Absent) /\ ~exclude_params
        THEN Request("GET", base, p, qversion, p2, api_headers)
        ELSE Request("GET", base, p, qversion, NoParams, api_headers)

\* SnykClient.get up to its retry_call: the URL (base, path, and the version
\* written into the URL) and the params handed to requests.get.
GetRequest(path, params, v, exclude_version, exclude_params) ==
    LET p == cleanup_path(path)
        base == IF v # Absent THEN "rest" ELSE "v1"
        qversion == IF v # Absent /\ ~exclude_version THEN v ELSE Absent
        p1 == IF params["version"] = Absent /\ version # Absent /\ ~exclude_version
              THEN [params EXCEPT !["version"] = IF v # Absent THEN v ELSE version]
              ELSE params
        p2 == [k \in ParamNames |-> LowerBool(p1[k])]
        p3 == IF p.q["limit"] # Absent THEN [p2 EXCEPT !["limit"] = Absent] ELSE p2
    IN  IF (~IsEmpty(params) \/ version # Absent) /\ ~exclude_params
        THEN Request("GET", base, p, qversion, p3, api_headers)
        ELSE Request("GET", base, p, qversion, NoParams, api_headers)

\* A post that keeps application/json on the REST surface.
PostRequestJsonOnRest(path, headers, params, use_rest) ==
    Request("POST", IF use_rest THEN "rest" ELSE "v1", path, Absent,
            IF use_rest THEN WithDefaultVersion(params) ELSE params,
            MergeHeaders(api_post_headers, headers))

\* SnykClient.post up to its retry_call.  `params` is the dictionary the call
\* works on (the caller's, or the default of the function): the request's
\* params are that dictionary as the call leaves it.
PostRequest(path, headers, params, use_rest) ==
    LET request_headers == MergeHeaders(api_post_headers, headers)
    IN  IF use_rest
        THEN Request("POST", "rest", path, Absent, WithDefaultVersion(params),
                     [request_headers EXCEPT
                         !["Content-Type"] = "application/vnd.api+json"])
        ELSE Request("POST", "v1", path, Absent, params, request_headers)

\* SnykClient.patch up to its retry_call.
PatchRequest(path, headers, params) ==
    Request("PATCH", "rest", path, Absent, WithDefaultVersion(params),
            MergeHeaders(api_patch_headers, headers))

\* SnykClient.put up to its retry_call.
PutRequest(path, headers, params, use_rest) ==
    IF use_rest
    THEN Request("PUT", "rest", path, Absent, WithDefaultVersion(params),
                 MergeHeaders(api_post_headers, headers))
    ELSE Request("PUT", "v1", path, Absent, params,
                 MergeHeaders(api_post_headers, headers))

\* SnykClient.delete up to its retry_call.
DeleteRequest(path, use_rest) ==
    IF is_v1_project_path(path)
    THEN Request("DELETE", "rest",
                 MkPath(FALSE, <<"orgs", path.segs[2], "projects", path.segs[4]>>,
                        NoParams),
                 Absent, WithDefaultVersion(NoParams), api_headers)
    ELSE Request("DELETE", IF use_rest THEN "rest" ELSE "v1", path, Absent,
                 IF use_rest THEN WithDefaultVersion(NoParams) ELSE NoParams,
                 api_headers)

\* What requests writes into the query string for a value of the params
\* mapping: str(v).
Wire(v) ==
    CASE v = "bool:True" -> "True"
      [] v = "bool:False" -> "False"
      [] v = "str:true" -> "true"
      [] v = "str:false" -> "false"
      [] OTHER -> v

\* One transport call: the request, the statuses of the attempts it made, and
\* how it ended.
Send(req, script) ==
    LET r == RetryCall(req.verb, script, tries)
    IN  [req |-> req, attempts |-> SubSeq(script, 1, r.attempts),
         exc |-> r.exc, status |-> r.status]

----------------------------------------------------------------------------
(* The server *)

\* The records page p holds: one or two, with an id numbered after the page
\* and one more attribute.
Records(p) ==
    LET i == PageIndex(p)
    IN  [j \in 1..(1 + (i % 2)) |->
            [id |-> 10 * i + j, kind |-> IF j = 1 THEN "a" ELSE "b"]]

\* The ids the records of the server have.
EntityIds == {10 * i + j : i \in 1..Len(AllPages), j \in 1..2}

\* klass.from_dict: the entity of a record; no organization is set on it.
from_dict(d) == [id |-> d.id, kind |-> d.kind, organization |-> Absent]

FromDicts(data) == [i \in 1..Len(data) |-> from_dict(data[i])]

\* The link the server gives for page p: a path with its own query string.
LinkTo(p) ==
    MkPath(TRUE, <<"targets">>,
           [NoParams EXCEPT !["starting_after"] = p,
                            !["version"] = "2024-01-01",
                            !["limit"] = "int:10"])

Body(hasData, data, next, self, total) ==
    [seen |-> TRUE, hasData |-> hasData, data |-> data, next |-> next,
     self |-> self, total |-> total]

Unseen == [seen |-> FALSE, hasData |-> FALSE, data |-> <<>>, next |-> Absent,
           self |-> Absent, total |-> 0]

\* The bodies a REST page may have: with or without a `data` array (empty or
\* not), links.next missing, null or the link of some page, links.self
\* missing or the link of some page.  A link is held as the page it names.
RestBodies(p) ==
    {Body(d[1], d[2], n, s, 0) :
        d \in {<<FALSE, <<>> >>, <<TRUE, <<>> >>, <<TRUE, Records(p)>>},
        n \in {Absent, "null"} \cup Pages,
        s \in {Absent} \cup Pages}

\* The bodies that differ for a listing that reads only the `data` key and
\* links.next.
ListingBodies(p) ==
    {Body(d[1], d[2], n, Absent, 0) :
        d \in {<<FALSE, <<>> >>, <<TRUE, Records(p)>>},
        n \in {Absent, "null"} \cup Pages}

\* The page numbers of the dependency listing, as they are written in a path.
PageNo == <<"int:1", "int:2", "int:3", "int:4", "int:5", "int:6">>

\* The bodies a page of dependencies may have: its results and the total the
\* server reports.
DependencyBodies(p) ==
    {Body(TRUE, d, Absent, Absent, t) :
        d \in {<<>>, Records(p)},
        t \in {0, ResultsPerPage, ResultsPerPage + 1, 2 * ResultsPerPage + 1,
               3 * ResultsPerPage + 1}}

\* The first page of the projects of a listed organization: the server keeps
\* them apart from the pages that links lead to.
FirstProjectsPage(id) ==
    AllPages[4 + ((CHOOSE n \in EntityIds : ToString(n) = id) % 2)]

\* The page a request asks for: the one its page number or its cursor names,
\* the first one without either.
PageOf(req) ==
    IF req.path.q["page"] # Absent
    THEN AllPages[CHOOSE i \in 1..Len(PageNo) : PageNo[i] = req.path.q["page"]]
    ELSE IF req.path.q["starting_after"] # Absent THEN req.path.q["starting_after"]
    ELSE IF req.params["starting_after"] # Absent THEN req.params["starting_after"]
    ELSE IF /\ Len(req.path.segs) = 3 /\ req.path.segs[1] = "orgs"
            /\ req.path.segs[2] # OrgId
         THEN FirstProjectsPage(req.path.segs[2])
    ELSE AllPages[1]

\* The bodies the server may answer with for page p: what it answered before,
\* if it did.
Serve(p, bodies) == IF server[p].seen THEN {server[p]} ELSE bodies

Served(p, body) == [server EXCEPT ![p] = body]

\* Truthiness of links.next.
HasNext(body) == body.next \notin {Absent, "null"}

\* A walk without the check of links.self.
NeverSameAsSelf(body) == FALSE

\* get_rest_pages: the next url is the same as the current url.
SameAsSelf(body) == body.self # Absent /\ body.next = body.self

\* A walk that goes on after an empty `data` array.
OnlyMissingDataEnds(body) == ~body.hasData

\* get_rest_pages: the followed page has no `data` key, or an empty array.
NoMoreData(body) == ~body.hasData \/ Len(body.data) = 0

\* A walk that puts the new page in front.
ExtendInFront(list, data) == data \o list

\* return_data.extend(page_data["data"])
Extend(list, data) == list \o data

----------------------------------------------------------------------------
(* Initial state *)

ListPath == MkPath(FALSE, <<"targets">>, NoParams)

CallerParams ==
    {NoParams,
     [NoParams EXCEPT !["limit"] = "int:50"],
     [NoParams EXCEPT !["flag"] = "bool:True"]}

\* given: the caller passed a `params` dictionary of its own.
NoArgs == [path |-> ListPath, headers |-> NoHeaders, given |-> FALSE,
           params |-> NoParams, v |-> Absent,
           exclude_version |-> FALSE, exclude_params |-> FALSE,
           use_rest |-> FALSE, tags |-> <<>>, script |-> <<>>]

NoFanOut == [orgs |-> <<>>, i |-> 0, projects |-> <<>>]

NoAnswer == [method |-> "none", id |-> 0, kwargs |-> <<>>, value |-> <<>>]

Init ==
    /\ tries \in 1..MaxTries
    /\ version \in ClientVersions
    /\ server = [p \in {AllPages[i] : i \in 1..Len(AllPages)} |-> Unseen]
    /\ op = "none"
    /\ pc = "idle"
    /\ args = NoArgs
    /\ page_data = Unseen
    /\ return_data = <<>>
    /\ cursor = [path |-> ListPath, params |-> NoParams]
    /\ calls = <<>>
    /\ retried = FALSE
    /\ attempts = <<>>
    /\ result = <<>>
    /\ exc = "none"
    /\ defaults = [f \in {"post", "put", "patch"} |-> NoParams]
    /\ earlier = 0
    /\ fanout = NoFanOut
    /\ answer = NoAnswer

\* The answers of the server to the attempts of one transport call.
TriesScripts == [1..tries -> Statuses]

\* What the log keeps of a transport call: the request, how it ended, and
\* whether it took more than one attempt.
Entry(call) ==
    [req |-> call.req, exc |-> call.exc, status |-> call.status,
     retried |-> Len(call.attempts) > 1]

\* The ways the transport call of a request can end, over every way the
\* server can answer its attempts.
Entries(req) == {Entry(Send(req, script)) : script \in TriesScripts}

\* A transport call joins the log.
Logged(e) ==
    /\ calls' = Append(calls, [req |-> e.req, exc |-> e.exc, status |-> e.status])
    /\ retried' = (retried \/ e.retried)

\* A listing that catches the exception and returns what it has.
RaiseKeepsTheList(e) ==
    /\ pc' = "returned"
    /\ result' = return_data
    /\ Logged(e)
    /\ UNCHANGED exc

\* The exception of a failed transport call is not caught on the way up: the
\* caller gets it, and no list.
Raise(e) ==
    /\ pc' = "raised"
    /\ exc' = e.exc
    /\ Logged(e)
    /\ UNCHANGED result

\* The caller gets a list back.
Return(list) ==
    /\ pc' = "returned"
    /\ result' = list

----------------------------------------------------------------------------
(* The transport operations, called on their own *)

TransportPaths ==
    {ListPath,
     MkPath(TRUE, <<"targets">>, NoParams),
     MkPath(FALSE, <<"targets">>, [NoParams EXCEPT !["limit"] = "int:10"]),
     MkPath(FALSE, <<"org", "11111111-1111-4111-8111-111111111111",
                     "project", "22222222-2222-4222-8222-222222222222">>, NoParams),
     MkPath(FALSE, <<"org", "my-org",
                     "project", "22222222-2222-4222-8222-222222222222">>, NoParams)}

\* Paths that come close to org/<uuid>/project/<uuid>: a leading slash, a
\* fifth segment, a first id that is no version 4 uuid.
DeletePaths ==
    TransportPaths \cup
    {MkPath(TRUE, <<"org", "11111111-1111-4111-8111-111111111111",
                    "project", "22222222-2222-4222-8222-222222222222">>, NoParams),
     MkPath(FALSE, <<"org", "11111111-1111-4111-8111-111111111111",
                     "project", "22222222-2222-4222-8222-222222222222",
                     "tags">>, NoParams),
     MkPath(FALSE, <<"org", "11111111-1111-1111-8111-111111111111",
                     "project", "22222222-2222-4222-8222-222222222222">>, NoParams)}

\* The paths given to post, put and patch, which send them as they are.
BodyPaths == {ListPath, MkPath(TRUE, <<"targets">>, NoParams)}

\* The params of a caller of a transport operation: as CallerParams, or with
\* a version of the caller's own.
TransportParams ==
    CallerParams \cup {[NoParams EXCEPT !["version"] = "2022-02-02"]}

\* The headers= of a caller: none, or an Authorization and a Content-Type of
\* the caller's own.
CallerHeaders ==
    {NoHeaders,
     [h \in HeaderNames |-> IF h = "Authorization" THEN "Bearer other"
                            ELSE "text/plain"]}

\* The dictionary a call works on: the caller's, or the default of function f.
Working(f, given) == IF given THEN TransportParams ELSE {defaults[f]}

\* The default of function f after a call that worked on it and left it as
\* `params`.
Left(f, given, params) ==
    IF given THEN defaults ELSE [defaults EXCEPT ![f] = params]

\* args.script: the answers the server has for the attempts of the call.
TransportCall(name, a, req, dflt) ==
    /\ op' = name
    /\ defaults' = dflt
    /\ \E script \in TriesScripts :
          LET call == Send(req, script)
          IN  /\ args' = [a EXCEPT !.script = script]
              /\ attempts' = call.attempts
              /\ IF call.exc # "none"
                 THEN Raise(Entry(call))
                 ELSE /\ Logged(Entry(call))
                      /\ pc' = "returned"
                      /\ UNCHANGED <<exc, result>>
    /\ UNCHANGED <<tries, version, earlier, server, page_data, return_data, cursor,
                   fanout, answer>>

Get ==
    /\ pc = "idle"
    /\ \E path \in TransportPaths, params \in TransportParams,
          v \in {Absent, LatestVersion}, ev \in BOOLEAN, ep \in BOOLEAN :
           TransportCall("get",
               [NoArgs EXCEPT !.path = path, !.params = params, !.v = v,
                              !.given = ~IsEmpty(params),
                              !.exclude_version = ev, !.exclude_params = ep],
               GetRequest(path, params, v, ev, ep), defaults)

Post ==
    /\ pc = "idle"
    /\ \E path \in BodyPaths, headers \in CallerHeaders, given \in BOOLEAN,
          use_rest \in BOOLEAN :
         \E params \in Working("post", given) :
           LET req == PostRequest(path, headers, params, use_rest)
           IN  TransportCall("post",
                   [NoArgs EXCEPT !.path = path, !.headers = headers,
                                  !.given = given, !.params = params,
                                  !.use_rest = use_rest],
                   req, Left("post", given, req.params))

Put ==
    /\ pc = "idle"
    /\ \E path \in BodyPaths, headers \in CallerHeaders, given \in BOOLEAN,
          use_rest \in BOOLEAN :
         \E params \in Working("put", given) :
           LET req == PutRequest(path, headers, params, use_rest)
           IN  TransportCall("put",
                   [NoArgs EXCEPT !.path = path, !.headers = headers,
                                  !.given = given, !.params = params,
                                  !.use_rest = use_rest],
                   req, Left("put", given, req.params))

Patch ==
    /\ pc = "idle"
    /\ \E path \in BodyPaths, headers \in CallerHeaders, given \in BOOLEAN :
         \E params \in Working("patch", given) :
           LET req == PatchRequest(path, headers, params)
           IN  TransportCall("patch",
                   [NoArgs EXCEPT !.path = path, !.headers = headers,
                                  !.given = given, !.params = params],
                   req, Left("patch", given, req.params))

Delete ==
    /\ pc = "idle"
    /\ \E path \in DeletePaths, use_rest \in BOOLEAN :
           TransportCall("delete",
               [NoArgs EXCEPT !.path = path, !.use_rest = use_rest],
               DeleteRequest(path, use_rest), defaults)

\* The call has ended and the same process, with the same client, makes
\* another one: the defaults of the functions are what the calls so far left.
NextCall ==
    /\ pc \in {"returned", "raised"}
    /\ earlier < MaxEarlier
    /\ earlier' = earlier + 1
    /\ op' = "none"
    /\ pc' = "idle"
    /\ args' = NoArgs
    /\ page_data' = Unseen
    /\ return_data' = <<>>
    /\ cursor' = [path |-> ListPath, params |-> NoParams]
    /\ calls' = <<>>
    /\ retried' = FALSE
    /\ attempts' = <<>>
    /\ result' = <<>>
    /\ exc' = "none"
    /\ server' = [p \in DOMAIN server |-> Unseen]
    /\ fanout' = NoFanOut
    /\ answer' = NoAnswer
    /\ UNCHANGED <<tries, version, defaults>>

----------------
(* SnykClient.get_rest_pages *)

\* The first page: get(path, params), its json, return_data = page_data["data"].
GetRestPagesFirst ==
    /\ pc = "idle"
    /\ op' = "get_rest_pages"
    /\ \E params \in CallerParams :
          LET req == GetRequest(ListPath, params, Absent, FALSE, FALSE)
          IN  /\ args' = [NoArgs EXCEPT !.params = params]
              /\ \E call \in Entries(req) :
                 IF call.exc # "none"
                 THEN Raise(call) /\ UNCHANGED <<server, page_data, return_data>>
                 ELSE \E body \in Serve(PageOf(req), RestBodies(PageOf(req))) :
                        /\ server' = Served(PageOf(req), body)
                        /\ Logged(call)
                        /\ page_data' = body
                        /\ IF body.hasData
                           THEN /\ return_data' = body.data
                                /\ pc' = "loop"
                                /\ UNCHANGED <<exc, result>>
                           ELSE /\ pc' = "raised"
                                /\ exc' = "KeyError"
                                /\ UNCHANGED <<return_data, result>>
    /\ UNCHANGED <<tries, version, earlier, defaults, cursor, attempts, fanout,
                   answer>>

\* The loop ends: links.next is missing or null, or it equals links.self.
GetRestPagesReturn ==
    /\ pc = "loop" /\ op = "get_rest_pages"
    /\ ~HasNext(page_data) \/ SameAsSelf(page_data)
    /\ Return(return_data)
    /\ UNCHANGED <<tries, version, earlier, defaults, server, op, args,
                   page_data, return_data, cursor, calls, retried, attempts, exc,
                   fanout, answer>>

\* One turn of the loop: the next link is followed, and the page either adds
\* its data or (no data key, or an empty array) ends the walk.
GetRestPagesFollow ==
    /\ pc = "loop" /\ op = "get_rest_pages"
    /\ HasNext(page_data)
    /\ ~SameAsSelf(page_data)
    /\ Len(calls) < MaxCalls
    /\ LET req == GetRequest(LinkTo(page_data.next), NoParams, Absent, TRUE, TRUE)
       IN  \E call \in Entries(req) :
              IF call.exc # "none"
              THEN Raise(call) /\ UNCHANGED <<server, page_data, return_data>>
              ELSE \E body \in Serve(PageOf(req), RestBodies(PageOf(req))) :
                     /\ server' = Served(PageOf(req), body)
                     /\ Logged(call)
                     /\ page_data' = body
                     /\ IF NoMoreData(body)
                        THEN /\ Return(return_data)
                             /\ UNCHANGED return_data
                        ELSE /\ return_data' = Extend(return_data, body.data)
                             /\ UNCHANGED <<pc, result>>
                     /\ UNCHANGED exc
    /\ UNCHANGED <<tries, version, earlier, defaults, op, args, cursor, attempts,
                   fanout, answer>>

----------------------------------------------------------------------------
(* OrganizationManager.all *)

OrgsPath == MkPath(FALSE, <<"orgs">>, NoParams)

\* utils.extract_query_params: the query parameters of a next link, none for
\* a null link.
extract_query_params(next) == IF next = "null" THEN NoParams ELSE LinkTo(next).q

\* A merge in which the first dictionary wins.
MergeKeepsFirst(a, b) == [k \in ParamNames |-> IF a[k] # Absent THEN a[k] ELSE b[k]]

\* {**a, **b}
Merge(a, b) == [k \in ParamNames |-> IF b[k] # Absent THEN b[k] ELSE a[k]]

\* The dictionary given to get as it is after the call.  get writes into it
\* (the version, the lowercased booleans, the limit popped) only inside
\* `if (params or self.version) and not exclude_params`, and there it works
\* on a dictionary of its own when the given one is empty: an empty
\* dictionary, and any dictionary under exclude_params, is left as given;
\* otherwise the given one is the params of the request.
AfterGet(params, req, exclude_params) ==
    IF IsEmpty(params) \/ exclude_params THEN params ELSE req.params

\* "/orgs/%s/projects" % self.instance.id
ProjectsPathOf(id) == MkPath(TRUE, <<"orgs", id, "projects">>, NoParams)

\* The id of an organization as it is written into a path.
IdOf(org) == ToString(org.id)

\* all() returns the organizations.
OrgsDone(orgs) ==
    /\ Return(orgs)
    /\ return_data' = orgs
    /\ UNCHANGED <<cursor, fanout>>

\* self.client.organizations.all() has returned: the loop over the
\* organizations begins, or with none of them the empty list is returned.
FanOutBegin(orgs) ==
    /\ fanout' = [orgs |-> orgs, i |-> 1, projects |-> <<>>]
    /\ return_data' = <<>>
    /\ IF orgs = <<>>
       THEN Return(<<>>) /\ UNCHANGED cursor
       ELSE /\ pc' = "projects"
            /\ cursor' = [path |-> ProjectsPathOf(IdOf(orgs[1])), params |-> NoParams]
            /\ UNCHANGED result

\* The organization listing has ended, for a caller of all() or inside the
\* fan-out of client.projects.
OrgsListed(caller, orgs) ==
    IF caller = "all" THEN OrgsDone(orgs) ELSE FanOutBegin(orgs)

\* get_all(url, query_params): one page is fetched and its organizations are
\* appended; with a `next` key in the links the function calls itself with
\* the merged parameters, without one the listing has ended.
get_all(query_params, caller) ==
    /\ Len(calls) < CallsCap(caller = "fan-out")
    /\ LET req == GetRequest(OrgsPath, query_params, Absent, FALSE, FALSE)
       IN  \E call \in Entries(req) :
              IF call.exc # "none"
              THEN Raise(call) /\ UNCHANGED <<server, return_data, cursor, fanout>>
              ELSE \E body \in Serve(PageOf(req), ListingBodies(PageOf(req))) :
                     LET orgs == IF body.hasData
                                 THEN return_data \o FromDicts(body.data)
                                 ELSE return_data
                     IN  /\ server' = Served(PageOf(req), body)
                         /\ Logged(call)
                         /\ UNCHANGED exc
                         /\ IF body.next # Absent
                            THEN /\ cursor' = [path |-> OrgsPath,
                                               params |-> Merge(AfterGet(query_params, req, FALSE),
                                                    extract_query_params(body.next))]
                                 /\ return_data' = orgs
                                 /\ pc' = "loop"
                                 /\ UNCHANGED <<result, fanout>>
                            ELSE OrgsListed(caller, orgs)
    /\ UNCHANGED <<tries, version, earlier, defaults, page_data, attempts, answer>>

OrganizationsAll ==
    /\ pc = "idle"
    /\ op' = "organizations.all"
    /\ \E params \in CallerParams :
          /\ args' = [NoArgs EXCEPT !.path = OrgsPath, !.params = params,
                                    !.given = ~IsEmpty(params)]
          /\ get_all(params, "all")

OrganizationsGetAll ==
    /\ pc = "loop" /\ op = "organizations.all"
    /\ get_all(cursor.params, "all")
    /\ UNCHANGED <<op, args>>

----------------------------------------------------------------------------
(* ProjectManager._query *)

ProjectsPath == ProjectsPathOf(OrgId)

ProjectsVersion == "2024-06-21"

ProjectsParams ==
    [NoParams EXCEPT !["limit"] = "int:100",
                     !["meta.latest_issue_counts"] = "str:true",
                     !["meta.latest_dependency_total"] = "str:true",
                     !["expand"] = "str:target"]

\* A tag of a tag filter is a dictionary: a function from the keys it has.
GoodTag == [key |-> "env", value |-> "prod"]
OtherTag == [key |-> "team", value |-> "x"]

TagFilters ==
    {<<>>,
     <<GoodTag>>,
     <<GoodTag, OtherTag>>,
     <<GoodTag, [key |-> "team"]>>,
     <<[value |-> "x"]>>,
     <<[key |-> "team", value |-> "x", extra |-> "y"]>>}

\* `"key" not in tag or "value" not in tag or len(tag.keys()) != 2` of no tag
ValidTags(tags) ==
    \A i \in 1..Len(tags) :
        /\ "key" \in DOMAIN tags[i]
        /\ "value" \in DOMAIN tags[i]
        /\ Cardinality(DOMAIN tags[i]) = 2

\* ",".join(f'{d["key"]}:{d["value"]}' for d in tags)
RECURSIVE JoinTags(_)
JoinTags(tags) ==
    LET token == tags[1].key \o ":" \o tags[1].value
    IN  IF Len(tags) = 1 THEN token
        ELSE token \o "," \o JoinTags(Tail(tags))

\* The params of a project listing: with tags, the joined tokens as well.
QueryParams(tags) ==
    IF tags # <<>>
    THEN [ProjectsParams EXCEPT !["tags"] = "str:" \o JoinTags(tags)]
    ELSE ProjectsParams

\* A listing that hands the projects over as from_dict made them.
KeepOrganization(projects, instance) == projects

\* for x in projects: x.organization = self.instance
SetOrganization(projects, instance) ==
    [i \in 1..Len(projects) |-> [projects[i] EXCEPT !.organization = instance]]

\* all() or filter(tags) returns the projects.
ProjectsDone(projects) ==
    /\ Return(projects)
    /\ return_data' = projects
    /\ UNCHANGED <<cursor, fanout>>

\* A loop that puts the projects of an organization in front of those it has.
FanOutExtendInFront(projects) ==
    LET all == projects \o fanout.projects
        i == fanout.i + 1
    IN  /\ fanout' = [fanout EXCEPT !.projects = all, !.i = i]
        /\ return_data' = <<>>
        /\ IF i > Len(fanout.orgs)
           THEN Return(all) /\ UNCHANGED cursor
           ELSE /\ pc' = "projects"
                /\ cursor' = [path |-> ProjectsPathOf(IdOf(fanout.orgs[i])),
                              params |-> NoParams]
                /\ UNCHANGED result

\* org.projects.all() has returned: projects.extend(...), and the loop goes
\* to the next organization or ends.
FanOutExtend(projects) ==
    LET all == fanout.projects \o projects
        i == fanout.i + 1
    IN  /\ fanout' = [fanout EXCEPT !.projects = all, !.i = i]
        /\ return_data' = <<>>
        /\ IF i > Len(fanout.orgs)
           THEN Return(all) /\ UNCHANGED cursor
           ELSE /\ pc' = "projects"
                /\ cursor' = [path |-> ProjectsPathOf(IdOf(fanout.orgs[i])),
                              params |-> NoParams]
                /\ UNCHANGED result

\* The outermost _query of a manager has its projects: all() or filter(tags)
\* of a caller returns them, the fan-out goes on with them.
ProjectsListed(again, projects) ==
    IF again = "loop" THEN ProjectsDone(projects) ELSE FanOutExtend(projects)

\* _query(tags, next_url) of the manager of organization `instance`: the tags
\* are checked; the page at next_url (the first page without one) is fetched;
\* with `data` in the body its projects are kept, and with a `next` key in
\* the links they are followed by those of _query(tags, next).  A null
\* next_url is falsy: the recursion asks for the first page again.  The
\* projects the outermost call returns have their organization set.  `again`
\* is where the caller stands while the recursion goes on.
_query(instance, tags, path, again) ==
    /\ IF ~ValidTags(tags)
       THEN /\ pc' = "raised"
            /\ exc' = "SnykError"
            /\ UNCHANGED <<server, return_data, cursor, calls, retried, result,
                           fanout>>
       ELSE /\ Len(calls) < CallsCap(again = "projects")
            /\ LET req == GetRequest(path, QueryParams(tags), ProjectsVersion,
                                     FALSE, FALSE)
               IN  \E call \in Entries(req) :
                     IF call.exc # "none"
                     THEN Raise(call) /\ UNCHANGED <<server, return_data, cursor, fanout>>
                     ELSE \E body \in Serve(PageOf(req), ListingBodies(PageOf(req))) :
                            LET projects == IF body.hasData
                                            THEN return_data \o FromDicts(body.data)
                                            ELSE return_data
                            IN  /\ server' = Served(PageOf(req), body)
                                /\ Logged(call)
                                /\ UNCHANGED exc
                                /\ IF body.hasData /\ body.next # Absent
                                   THEN /\ cursor' =
                                            [path |-> IF body.next = "null"
                                                      THEN ProjectsPathOf(instance)
                                                      ELSE LinkTo(body.next),
                                             params |-> NoParams]
                                        /\ return_data' = projects
                                        /\ pc' = again
                                        /\ UNCHANGED <<result, fanout>>
                                   ELSE ProjectsListed(again,
                                            SetOrganization(projects, instance))
    /\ UNCHANGED <<tries, version, earlier, defaults, page_data, attempts, answer>>

\* all() (no tags) and filter(tags=...) of the manager of an organization.
ProjectsAll ==
    /\ pc = "idle"
    /\ \E tags \in TagFilters :
          /\ op' = (IF tags = <<>> THEN "projects.all" ELSE "projects.filter")
          /\ args' = [NoArgs EXCEPT !.path = ProjectsPath, !.tags = tags]
          /\ _query(OrgId, tags, ProjectsPath, "loop")

ProjectsQueryNext ==
    /\ pc = "loop" /\ op \in {"projects.all", "projects.filter"}
    /\ _query(OrgId, args.tags, cursor.path, "loop")
    /\ UNCHANGED <<op, args>>

----------------
(* ProjectManager._query of client.projects, which has no organization *)

\* The tag filters given to the manager without an organization.
UnscopedTagFilters == {<<>>, <<GoodTag>>, <<GoodTag, [key |-> "team"]>>}

\* client.projects.all() and client.projects.filter(tags=...): _query(tags)
\* takes the branch without self.instance, which does not look at the tags.
ProjectsUnscoped ==
    /\ pc = "idle"
    /\ \E tags \in UnscopedTagFilters :
          /\ op' = (IF tags = <<>> THEN "client.projects.all"
                    ELSE "client.projects.filter")
          /\ args' = [NoArgs EXCEPT !.path = OrgsPath, !.tags = tags]
          /\ get_all(NoParams, "fan-out")

UnscopedOps == {"client.projects.all", "client.projects.filter"}

\* The organization listing of the fan-out goes on.
FanOutOrganizations ==
    /\ pc = "loop" /\ op \in UnscopedOps
    /\ get_all(cursor.params, "fan-out")
    /\ UNCHANGED <<op, args>>

\* org.projects.all() of the organization the loop is at: its first page, or
\* the page its recursion is at.
FanOutProjects ==
    /\ pc = "projects" /\ op \in UnscopedOps
    /\ _query(IdOf(fanout.orgs[fanout.i]), <<>>, cursor.path, "projects")
    /\ UNCHANGED <<op, args>>

----------------------------------------------------------------------------
(* DependencyManager.all under an organization *)

DependenciesPath(page) ==
    MkPath(FALSE, <<"org", OrgId, "dependencies">>,
           [NoParams EXCEPT !["page"] = PageNo[page],
                            !["perPage"] = "int:1000"])

\* A listing that asks for one more page when the total equals what the
\* pages so far can hold.
MorePagesInclusive(total, page) == total >= page * ResultsPerPage

\* total > (page * results_per_page)
MorePages(total, page) == total > page * ResultsPerPage

\* all(page): the page is posted for; its results are followed by those of
\* all(page + 1) when the total it reports is greater than page * 1000.
DependenciesPage(page) ==
    /\ Len(calls) < MaxCalls
    /\ LET req == PostRequest(DependenciesPath(page), NoHeaders, defaults["post"], FALSE)
       IN  \E call \in Entries(req) :
              IF call.exc # "none"
              THEN Raise(call) /\ UNCHANGED <<server, return_data, cursor>>
              ELSE \E body \in Serve(PageOf(req), DependencyBodies(PageOf(req))) :
                     /\ server' = Served(PageOf(req), body)
                     /\ Logged(call)
                     /\ return_data' = return_data \o FromDicts(body.data)
                     /\ UNCHANGED exc
                     /\ IF MorePages(body.total, page)
                        THEN /\ cursor' = [path |-> DependenciesPath(page + 1),
                                           params |-> NoParams]
                             /\ pc' = "loop"
                             /\ UNCHANGED result
                        ELSE /\ Return(return_data \o FromDicts(body.data))
                             /\ UNCHANGED cursor
    /\ UNCHANGED <<tries, version, earlier, defaults, page_data, attempts, fanout,
                   answer>>

DependenciesAll ==
    /\ pc = "idle"
    /\ op' = "dependencies.all"
    /\ args' = [NoArgs EXCEPT !.path = DependenciesPath(1)]
    /\ DependenciesPage(1)

DependenciesNext ==
    /\ pc = "loop" /\ op = "dependencies.all"
    /\ DependenciesPage(CHOOSE i \in 1..Len(PageNo) : PageNo[i] = cursor.path.q["page"])
    /\ UNCHANGED <<op, args>>

----------------------------------------------------------------------------
(* MemberManager.all, LicenseManager.all, IntegrationManager.all *)

SimpleStrategies == {"members", "licenses", "integrations"}

\* "org/%s/members" % self.instance.id, and the like
SimplePath(strategy) == MkPath(FALSE, <<"org", OrgId, strategy>>, NoParams)

\* The members and the integrations are got, the licenses are posted for.
SimpleRequest(strategy) ==
    IF strategy = "licenses"
    THEN PostRequest(SimplePath(strategy), NoHeaders, defaults["post"], FALSE)
    ELSE GetRequest(SimplePath(strategy), NoParams, Absent, FALSE, FALSE)

\* The bodies of these listings: an array or a mapping for the members and
\* the integrations, a mapping with or without `results` for the licenses.
SimpleBodies(strategy, p) ==
    {Body(d[1], d[2], Absent, Absent, 0) :
        d \in {<<TRUE, <<>> >>, <<TRUE, Records(p)>>} \cup
              (IF strategy = "licenses" THEN {<<FALSE, <<>> >>} ELSE {})}

\* The entities of a body; an integration gets its organization.
SimpleEntities(strategy, body) ==
    IF strategy = "integrations"
    THEN SetOrganization(FromDicts(body.data), OrgId)
    ELSE FromDicts(body.data)

SimpleAll ==
    /\ pc = "idle"
    /\ \E strategy \in SimpleStrategies :
         LET req == SimpleRequest(strategy)
         IN  /\ op' = strategy \o ".all"
             /\ args' = [NoArgs EXCEPT !.path = SimplePath(strategy)]
             /\ \E call \in Entries(req) :
                  IF call.exc # "none"
                  THEN Raise(call) /\ UNCHANGED <<server, return_data>>
                  ELSE \E body \in Serve(PageOf(req),
                                         SimpleBodies(strategy, PageOf(req))) :
                         /\ server' = Served(PageOf(req), body)
                         /\ Logged(call)
                         /\ return_data' = SimpleEntities(strategy, body)
                         /\ Return(SimpleEntities(strategy, body))
                         /\ UNCHANGED exc
    /\ UNCHANGED <<tries, version, earlier, defaults, page_data, cursor, attempts,
                   fanout, answer>>

----------------------------------------------------------------------------
(* Manager.get, Manager.first, Manager.filter *)

\* The operations whose list is what all() of a collection strategy returns.
CollectionOps ==
    {"organizations.all", "projects.all", "client.projects.all",
     "dependencies.all", "members.all", "licenses.all", "integrations.all"}

\* The lists that filter works on: those, and what _query(tags) returns.
FilterOps == CollectionOps \cup {"projects.filter", "client.projects.filter"}

\* The ids asked for: one the first page holds in second place, one no page
\* holds.
GetIds == {12, 99}

\* The keyword arguments of filter: the keys in the order they were given,
\* and the value of each.
Kwargs ==
    {[keys |-> <<>>, vals |-> [kind |-> "a"]],
     [keys |-> <<"kind">>, vals |-> [kind |-> "a"]],
     [keys |-> <<"id", "kind">>, vals |-> [id |-> 12, kind |-> "b"]],
     [keys |-> <<"kind", "id">>, vals |-> [id |-> 12, kind |-> "b"]],
     [keys |-> <<"id", "kind">>, vals |-> [id |-> 12, kind |-> "a"]]}

Answer(method, id, kwargs, value) ==
    [method |-> method, id |-> id, kwargs |-> kwargs, value |-> value]

\* The method ends with a value, or with SnykNotFoundError.
Answered(a, found) ==
    /\ answer' = a
    /\ IF found
       THEN pc' = "answered" /\ UNCHANGED exc
       ELSE pc' = "raised" /\ exc' = "SnykNotFoundError"
    /\ UNCHANGED <<tries, version, earlier, defaults, server, op, args, page_data,
                   return_data, cursor, calls, retried, attempts, result, fanout>>

\* (x for x in self.all(params=params) if x.id == id)
Matching(list, id) == SelectSeq(list, LAMBDA x : x.id = id)

\* Manager.get once self.all(params=params) has returned: the first entity
\* with the id, SnykNotFoundError without one.  The manager of the projects
\* of an organization has a get of its own.
ManagerGet ==
    /\ pc = "returned" /\ op \in CollectionOps \ {"projects.all"}
    /\ \E id \in GetIds :
         LET found == Matching(result, id)
         IN  Answered(Answer("get", id, <<>>,
                             IF found = <<>> THEN <<>> ELSE <<found[1]>>),
                      found # <<>>)

\* A first that takes the last entity.
IndexLast(list) == IF list = <<>> THEN <<>> ELSE <<list[Len(list)]>>

\* self.all()[0]; <<>> stands for the IndexError of an empty list.
IndexZero(list) == IF list = <<>> THEN <<>> ELSE <<list[1]>>

\* Manager.first once self.all() has returned: self.all()[0], and
\* SnykNotFoundError for the IndexError of an empty list.
ManagerFirst ==
    /\ pc = "returned" /\ op \in CollectionOps
    /\ Answered(Answer("first", 0, <<>>, IndexZero(result)), IndexZero(result) # <<>>)

\* A filter on the last keyword only.
_filter_by_last_kwarg(data, kwargs) ==
    IF kwargs.keys = <<>> THEN data
    ELSE LET key == kwargs.keys[Len(kwargs.keys)]
         IN  SelectSeq(data, LAMBDA x : x[key] = kwargs.vals[key])

\* Manager._filter_by_kwargs: for each keyword in turn, the entities of data
\* whose attribute of that name equals the value.
RECURSIVE _filter_by_kwargs(_, _)
_filter_by_kwargs(data, kwargs) ==
    IF kwargs.keys = <<>> THEN data
    ELSE LET key == Head(kwargs.keys)
         IN  _filter_by_kwargs(SelectSeq(data, LAMBDA x : x[key] = kwargs.vals[key]),
                               [kwargs EXCEPT !.keys = Tail(kwargs.keys)])

\* Manager.filter once self.all() has returned, and ProjectManager.filter
\* once self._query(tags) has.
ManagerFilter ==
    /\ pc = "returned" /\ op \in FilterOps
    /\ \E kwargs \in Kwargs :
         Answered(Answer("filter", 0, kwargs, _filter_by_kwargs(result, kwargs)),
                  TRUE)

----------------------------------------------------------------------------
(* ProjectManager.get of the manager of an organization *)

\* "orgs/%s/projects/%s" % (self.instance.id, id)
ProjectPath(id) ==
    MkPath(FALSE, <<"orgs", OrgId, "projects", ToString(id)>>, NoParams)

\* self.__get_query_params()
ProjectQueryParams ==
    [NoParams EXCEPT !["meta.latest_issue_counts"] = "str:true",
                     !["meta.latest_dependency_total"] = "str:true",
                     !["expand"] = "str:target"]

\* The project is asked for by its id: the answer is the project, with its
\* organization set, or the exception of the transport call.
ProjectsGet ==
    /\ pc = "idle"
    /\ op' = "projects.get"
    /\ \E id \in GetIds :
         LET req == GetRequest(ProjectPath(id), ProjectQueryParams, Absent,
                               FALSE, FALSE)
             project == SetOrganization(<<from_dict([id |-> id, kind |-> "a"])>>,
                                        OrgId)
         IN  /\ args' = [NoArgs EXCEPT !.path = ProjectPath(id),
                                       !.params = ProjectQueryParams]
             /\ \E call \in Entries(req) :
                  IF call.exc # "none"
                  THEN Raise(call) /\ answer' = Answer("get", id, <<>>, <<>>)
                  ELSE /\ Logged(call)
                       /\ answer' = Answer("get", id, <<>>, project)
                       /\ pc' = "answered"
                       /\ UNCHANGED <<exc, result>>
    /\ UNCHANGED <<tries, version, earlier, defaults, server, page_data,
                   return_data, cursor, attempts, fanout>>

----------------------------------------------------------------------------
(* DictManager: EntitlementManager, SettingManager, IgnoreManager,
   JiraIssueManager, IntegrationSettingManager *)

\* The id of the project, or of the integration, a manager is made for.
ProjectId == "22222222-2222-4222-8222-222222222222"

DictStrategies ==
    {"entitlements", "settings", "ignores", "jira-issues", "integration-settings"}

\* "org/%s/entitlements" % self.instance.id,
\* "org/%s/project/%s/settings" % (self.instance.organization.id,
\* self.instance.id), and the like
DictPath(strategy) ==
    IF strategy = "entitlements"
    THEN MkPath(FALSE, <<"org", OrgId, "entitlements">>, NoParams)
    ELSE IF strategy = "integration-settings"
    THEN MkPath(FALSE, <<"org", OrgId, "integrations", ProjectId, "settings">>,
                NoParams)
    ELSE MkPath(FALSE, <<"org", OrgId, "project", ProjectId, strategy>>, NoParams)

\* The mappings the server may answer with: the items of a JSON object, in
\* the order of the document.
Mappings ==
    {<<>>,
     <<[key |-> "k1", value |-> "v1"]>>,
     <<[key |-> "k1", value |-> "v1"], [key |-> "k2", value |-> "v2"]>>}

\* The keys asked for: one that the longest mapping holds in second place,
\* one no mapping holds.
DictKeys == {"k2", "k9"}

\* A lookup that gives the first value, whatever the key.
GetFirstValue(mapping, id) ==
    IF mapping = <<>> THEN <<>> ELSE <<mapping[1].value>>

\* self.all()[id]; <<>> stands for the KeyError of a missing key.
GetItem(mapping, id) ==
    LET found == SelectSeq(mapping, LAMBDA item : item.key = id)
    IN  IF found = <<>> THEN <<>> ELSE <<found[1].value>>

\* next(iter(self.all().items())); <<>> stands for the StopIteration of an
\* empty mapping.
NextOfItems(mapping) == IF mapping = <<>> THEN <<>> ELSE <<mapping[1]>>

\* all() of a mapping-shaped strategy: resp.json() of a GET, as it comes.
DictAll ==
    /\ pc = "idle"
    /\ \E strategy \in DictStrategies :
         LET req == GetRequest(DictPath(strategy), NoParams, Absent, FALSE, FALSE)
         IN  /\ op' = strategy \o ".all"
             /\ args' = [NoArgs EXCEPT !.path = DictPath(strategy)]
             /\ \E call \in Entries(req) :
                  IF call.exc # "none"
                  THEN Raise(call) /\ UNCHANGED <<server, return_data>>
                  ELSE \E mapping \in Mappings :
                         /\ server' = Served(PageOf(req),
                                             Body(TRUE, mapping, Absent, Absent, 0))
                         /\ Logged(call)
                         /\ return_data' = mapping
                         /\ Return(mapping)
                         /\ UNCHANGED exc
    /\ UNCHANGED <<tries, version, earlier, defaults, page_data, cursor, attempts,
                   fanout, answer>>

DictOps == {strategy \o ".all" : strategy \in DictStrategies}

\* DictManager.get once self.all() has returned: the value under the key,
\* SnykNotFoundError for the KeyError.
DictGet ==
    /\ pc = "returned" /\ op \in DictOps
    /\ \E id \in DictKeys :
         Answered(Answer("get", id, <<>>, GetItem(result, id)),
                  GetItem(result, id) # <<>>)

\* DictManager.first once self.all() has returned: the first item,
\* SnykNotFoundError for the StopIteration.
DictFirst ==
    /\ pc = "returned" /\ op \in DictOps
    /\ Answered(Answer("first", 0, <<>>, NextOfItems(result)),
                NextOfItems(result) # <<>>)

\* A method that raises SnykNotImplementedError as its first statement: no
\* listing, no request.
NotImplemented(name, method, id, kwargs) ==
    /\ op' = name
    /\ pc' = "raised"
    /\ exc' = "SnykNotImplementedError"
    /\ answer' = Answer(method, id, kwargs, <<>>)
    /\ UNCHANGED <<tries, version, earlier, defaults, server, args, page_data,
                   return_data, cursor, calls, retried, attempts, result, fanout>>

\* DictManager.filter
DictFilter ==
    /\ pc = "idle"
    /\ \E strategy \in DictStrategies, kwargs \in Kwargs :
         NotImplemented(strategy \o ".filter", "filter", 0, kwargs)

----------------------------------------------------------------------------
(* SingletonManager: DependencyGraphManager, IssueSetAggregatedManager,
   IssuePathsManager *)

SingletonStrategies == {"dep-graph", "aggregated-issues", "paths"}

\* The id of the issue the manager of the paths is made for.
IssueId == "SNYK-JS-1"

\* "org/%s/project/%s/dep-graph", "org/%s/project/%s/aggregated-issues",
\* "org/%s/project/%s/issue/%s/paths"
SingletonPath(strategy) ==
    IF strategy = "paths"
    THEN MkPath(FALSE, <<"org", OrgId, "project", ProjectId, "issue", IssueId,
                         "paths">>, NoParams)
    ELSE MkPath(FALSE, <<"org", OrgId, "project", ProjectId, strategy>>, NoParams)

\* The dependency graph and the paths are got, the aggregated issues are
\* posted for.
SingletonRequest(strategy) ==
    IF strategy = "aggregated-issues"
    THEN PostRequest(SingletonPath(strategy), NoHeaders, defaults["post"], FALSE)
    ELSE GetRequest(SingletonPath(strategy), NoParams, Absent, FALSE, FALSE)

\* The documents the server may answer with: one record; for the dependency
\* graph it is under the key `depGraph`, which may be missing.
SingletonBodies(strategy, p) ==
    {Body(TRUE, <<r>>, Absent, Absent, 0) : r \in {Records(p)[1], Records("p3")[2]}}
    \cup (IF strategy = "dep-graph"
          THEN {Body(FALSE, <<>>, Absent, Absent, 0)} ELSE {})

\* Every strategy with a filter() of its own.
FetchingEverywhere(strategy) == {"all", "filter"}

\* The methods of a strategy that fetch: all() everywhere, and filter() where
\* the strategy has one of its own.
Fetching(strategy) ==
    IF strategy = "aggregated-issues" THEN {"all", "filter"} ELSE {"all"}

\* all() of a singleton strategy, and IssueSetAggregatedManager.filter: one
\* request, and the entity made of its answer; SnykError for a dependency
\* graph without `depGraph`.
SingletonAll ==
    /\ pc = "idle"
    /\ \E strategy \in SingletonStrategies :
         LET req == SingletonRequest(strategy)
         IN  /\ \E method \in Fetching(strategy) : op' = strategy \o "." \o method
             /\ args' = [NoArgs EXCEPT !.path = SingletonPath(strategy)]
             /\ \E call \in Entries(req) :
                  IF call.exc # "none"
                  THEN Raise(call) /\ UNCHANGED <<server, return_data>>
                  ELSE \E body \in SingletonBodies(strategy, PageOf(req)) :
                         /\ server' = Served(PageOf(req), body)
                         /\ Logged(call)
                         /\ return_data' = FromDicts(body.data)
                         /\ IF body.hasData
                            THEN Return(FromDicts(body.data)) /\ UNCHANGED exc
                            ELSE /\ pc' = "raised"
                                 /\ exc' = "SnykError"
                                 /\ UNCHANGED result
    /\ UNCHANGED <<tries, version, earlier, defaults, page_data, cursor, attempts,
                   fanout, answer>>

\* The methods SingletonManager leaves unsupported on a strategy.
Unsupported(strategy) == {"get", "first", "filter"} \ Fetching(strategy)

\* SingletonManager.first, SingletonManager.get, SingletonManager.filter
SingletonUnsupported ==
    /\ pc = "idle"
    /\ \E strategy \in SingletonStrategies :
         \E method \in Unsupported(strategy) :
           \E id \in GetIds, kwargs \in Kwargs :
             NotImplemented(strategy \o "." \o method, method,
                            IF method = "get" THEN id ELSE 0,
                            IF method = "filter" THEN kwargs ELSE <<>>)

----------------------------------------------------------------------------
(* Manager.factory *)

\* A table that still gives the deprecated manager of the issue sets.
DeprecatedTable ==
    [Project |-> "ProjectManager", Organization |-> "OrganizationManager",
     Member |-> "MemberManager", License |-> "LicenseManager",
     Dependency |-> "DependencyManager", Entitlement |-> "EntitlementManager",
     Setting |-> "SettingManager", Ignore |-> "IgnoreManager",
     JiraIssue |-> "JiraIssueManager", DependencyGraph |-> "DependencyGraphManager",
     IssueSet |-> "IssueSetManager",
     IssueSetAggregated |-> "IssueSetAggregatedManager",
     Integration |-> "IntegrationManager",
     IntegrationSetting |-> "IntegrationSettingManager",
     Tag |-> "TagManager", IssuePaths |-> "IssuePathsManager"]

\* The dictionary of Manager.factory.
ManagerTable ==
    [Project |-> "ProjectManager", Organization |-> "OrganizationManager",
     Member |-> "MemberManager", License |-> "LicenseManager",
     Dependency |-> "DependencyManager", Entitlement |-> "EntitlementManager",
     Setting |-> "SettingManager", Ignore |-> "IgnoreManager",
     JiraIssue |-> "JiraIssueManager", DependencyGraph |-> "DependencyGraphManager",
     IssueSet |-> "IssueSetAggregatedManager",
     IssueSetAggregated |-> "IssueSetAggregatedManager",
     Integration |-> "IntegrationManager",
     IntegrationSetting |-> "IntegrationSettingManager",
     Tag |-> "TagManager", IssuePaths |-> "IssuePathsManager"]

\* Names the dictionary does not have: of another kind, in another case, of
\* a manager rather than of a kind, empty.
OtherNames == {"Group", "project", "ProjectManager", ""}

\* What factory is given as klass: a string, or a class with a __name__.
Klasses ==
    [isString : BOOLEAN, name : DOMAIN ManagerTable \cup OtherNames]

\* key = klass if isinstance(klass, str) else klass.__name__
KeyOf(klass) == klass.name

\* Manager.factory: the manager of the class the dictionary has under the
\* key; SnykError for the KeyError, and no manager.
Factory ==
    /\ pc = "idle"
    /\ op' = "factory"
    /\ \E klass \in Klasses :
         IF KeyOf(klass) \in DOMAIN ManagerTable
         THEN /\ answer' = Answer("factory", 0, klass,
                                  <<[class |-> ManagerTable[KeyOf(klass)],
                                     klass |-> klass]>>)
              /\ pc' = "answered"
              /\ UNCHANGED exc
         ELSE /\ answer' = Answer("factory", 0, klass, <<>>)
              /\ pc' = "raised"
              /\ exc' = "SnykError"
    /\ UNCHANGED <<tries, version, earlier, defaults, server, args, page_data,
                   return_data, cursor, calls, retried, attempts, result, fanout>>

----------------------------------------------------------------------------

Next ==
    \/ Get
    \/ Post
    \/ Put
    \/ Patch
    \/ Delete
    \/ GetRestPagesFirst
    \/ GetRestPagesReturn
    \/ GetRestPagesFollow
    \/ OrganizationsAll
    \/ OrganizationsGetAll
    \/ ProjectsAll
    \/ ProjectsQueryNext
    \/ ProjectsUnscoped
    \/ FanOutOrganizations
    \/ FanOutProjects
    \/ DependenciesAll
    \/ DependenciesNext
    \/ SimpleAll
    \/ ManagerGet
    \/ ManagerFirst
    \/ ManagerFilter
    \/ ProjectsGet
    \/ DictAll
    \/ DictGet
    \/ DictFirst
    \/ DictFilter
    \/ SingletonAll
    \/ SingletonUnsupported
    \/ Factory

Spec == Init /\ [][Next]_vars

\* A process that makes one transport call after another with one client.
SessionNext ==
    \/ Get
    \/ Post
    \/ Put
    \/ Patch
    \/ Delete
    \/ NextCall

SessionSpec == Init /\ [][SessionNext]_vars

----------------------------------------------------------------------------
(* Properties of the transport operations *)

TransportOps == {"get", "post", "put", "patch", "delete"}

\* A transport operation was called on its own and has ended.
TransportEnded == op \in TransportOps /\ pc \in {"returned", "raised"}

\* C1 (as claimed): a transport operation whose first attempt is answered
\* with a 4xx status issues exactly one HTTP request and fails with
\* SnykHTTPError.
C1_NoRetryOn4xx ==
    (TransportEnded /\ args.script[1] = 404)
        => (attempts = <<404>> /\ pc = "raised" /\ exc = "SnykHTTPError")

\* C2: when the first tries-1 attempts are answered with 503 and the last
\* allowed attempt with 200, the operation returns the 200 response, and the
\* requests it issued are tries-1 failed ones followed by the successful one.
C2_RetryUntilSuccess ==
    (/\ TransportEnded
     /\ \A i \in 1..(tries - 1) : args.script[i] = 503
     /\ args.script[tries] = 200)
        => (/\ pc = "returned"
            /\ exc = "none"
            /\ calls[Len(calls)].status = 200
            /\ Len(attempts) = tries
            /\ \A i \in 1..(tries - 1) : attempts[i] = 503
            /\ attempts[tries] = 200)

C2_Witness ==
    /\ op = "post" /\ pc = "returned"
    /\ tries = MaxTries /\ tries >= 2
    /\ \A i \in 1..(tries - 1) : attempts[i] = 503
    /\ attempts[tries] = 200

\* C3 (as claimed): when every attempt is answered with a 5xx status or with
\* no response, the operation issues exactly `tries` requests and then raises
\* SnykHTTPError; it returns nothing.
C3_ExhaustedRaisesHTTPError ==
    (TransportEnded /\ \A i \in 1..tries : args.script[i] \in {503, NoResponse})
        => (pc = "raised" /\ exc = "SnykHTTPError" /\ Len(attempts) = tries)

----------------------------------------------------------------------------
(* Properties of the requests the transport operations build *)

\* The request of the transport operation that was called on its own.
Sent == calls[1].req

\* The values of `version` a request carries, in the URL the operation wrote
\* and in the params mapping.
Carried(req) == {req.qversion, req.params["version"]} \ {Absent}

\* The version the caller of a transport operation supplied if any, else the
\* one of the client, else the fallback.
Expected ==
    IF op = "get" THEN args.v
    ELSE IF args.given /\ args.params["version"] # Absent
         THEN args.params["version"]
         ELSE VersionOrLatest

\* C11: every request sent to the REST base URL by post(use_rest=True),
\* put(use_rest=True), patch, delete and get(version=...) carries a version
\* parameter: the caller's if the caller supplied one, else the version of the
\* client, else 2024-06-21; a get called with exclude_version is the
\* exception.  This holds for every call of a process that makes one call
\* after another with one client.
C11_RestCarriesVersion ==
    (/\ TransportEnded
     /\ Sent.base = "rest"
     /\ ~(op = "get" /\ args.exclude_version))
        => (/\ Expected \in Carried(Sent)
            /\ op # "get" => Carried(Sent) = {Expected}
            /\ op = "get" => Carried(Sent) \subseteq {args.v, args.params["version"]})

C11_Witness ==
    /\ op = "post" /\ pc = "returned"
    /\ earlier = 1
    /\ ~args.given /\ args.use_rest
    /\ version # Absent
    /\ Sent.base = "rest"
    /\ Sent.params["version"] = version

Header(req, h) == req.headers[h]

\* C12 (as claimed): for calls that pass no headers of their own, GET and
\* DELETE send no Content-Type, POST and PUT send application/json on the
\* legacy and on the REST surface, PATCH sends application/vnd.api+json, and
\* every request carries Authorization: token <value>.
C12_ContentTypeByVerb ==
    (TransportEnded /\ args.headers = NoHeaders)
        => (/\ Header(Sent, "Authorization") = "token api_token"
            /\ Header(Sent, "Content-Type") =
                  CASE Sent.verb \in {"GET", "DELETE"} -> Absent
                    [] Sent.verb \in {"POST", "PUT"} -> "application/json"
                    [] Sent.verb = "PATCH" -> "application/vnd.api+json")

\* C12 (amended): for calls that pass no headers of their own, GET and DELETE
\* send no Content-Type, PUT sends application/json on both surfaces, POST
\* sends application/json on the legacy surface and application/vnd.api+json
\* on the REST surface, PATCH sends application/vnd.api+json, and every
\* request carries Authorization: token <value>.  A POST to the REST surface
\* sends application/vnd.api+json whatever headers the caller passes.
C12_ContentTypeByVerbAndSurface ==
    TransportEnded
        => (/\ args.headers = NoHeaders
                => (/\ Header(Sent, "Authorization") = "token api_token"
                    /\ Header(Sent, "Content-Type") =
                          CASE Sent.verb \in {"GET", "DELETE"} -> Absent
                            [] Sent.verb = "PUT" -> "application/json"
                            [] Sent.verb = "POST" /\ Sent.base = "v1" ->
                                   "application/json"
                            [] Sent.verb = "POST" /\ Sent.base = "rest" ->
                                   "application/vnd.api+json"
                            [] Sent.verb = "PATCH" -> "application/vnd.api+json")
            /\ (Sent.verb = "POST" /\ Sent.base = "rest")
                => Header(Sent, "Content-Type") = "application/vnd.api+json")

C12_Witness ==
    /\ op = "post" /\ pc = "returned"
    /\ args.use_rest /\ args.headers = NoHeaders
    /\ Sent.base = "rest"
    /\ Header(Sent, "Content-Type") = "application/vnd.api+json"
    /\ Header(Sent, "Authorization") = "token api_token"

\* The path is exactly org/<uuid>/project/<uuid>.
ExactProjectPath(path) ==
    \E a \in Uuids, b \in Uuids :
        path = MkPath(FALSE, <<"org", a, "project", b>>, NoParams)

\* C13: delete(path) asks for orgs/<id1>/projects/<id2> on the REST base URL
\* with a version parameter exactly when path is org/<uuid>/project/<uuid>
\* with both ids matching the UUID pattern, the ids in their order; every
\* other path is sent as it is, on the surface use_rest selects, with a
\* version parameter only when use_rest is true.
C13_DeleteRewrite ==
    (TransportEnded /\ op = "delete")
        => IF ExactProjectPath(args.path)
           THEN /\ Sent.base = "rest"
                /\ Sent.path = MkPath(FALSE, <<"orgs", args.path.segs[2],
                                               "projects", args.path.segs[4]>>,
                                      NoParams)
                /\ Carried(Sent) = {VersionOrLatest}
           ELSE /\ Sent.path = args.path
                /\ Sent.base = (IF args.use_rest THEN "rest" ELSE "v1")
                /\ Carried(Sent) = (IF args.use_rest THEN {VersionOrLatest} ELSE {})

C13_Witness ==
    /\ op = "delete" /\ pc = "returned"
    /\ ~args.use_rest
    /\ ExactProjectPath(args.path)
    /\ args.path.segs[2] # args.path.segs[4]
    /\ Sent.base = "rest"
    /\ Sent.path.segs = <<"orgs", args.path.segs[2], "projects", args.path.segs[4]>>

Booleans == {"bool:True", "bool:False"}

\* C14 (as claimed): in the request of get, post, put and patch, a parameter
\* to which the caller gave a boolean is written as true or false in lower
\* case wherever it is sent.
C14_BooleansInLowerCase ==
    (TransportEnded /\ op \in {"get", "post", "put", "patch"} /\ args.given)
        => \A k \in ParamNames :
              (args.params[k] \in Booleans /\ Sent.params[k] # Absent)
                  => Wire(Sent.params[k]) \in {"true", "false"}

\* C15: no GET carries limit twice: when the path given to get embeds a limit
\* query parameter, the params of the request hold no limit, whatever the
\* caller's params, the version of the client and the exclude flags; this
\* covers the GETs of the listings, the followed next links among them.
C15_LimitOnce ==
    \A i \in 1..Len(calls) :
        (calls[i].req.verb = "GET" /\ calls[i].req.path.q["limit"] # Absent)
            => calls[i].req.params["limit"] = Absent

C15_Witness ==
    /\ op = "get" /\ pc = "returned"
    /\ args.path.q["limit"] # Absent
    /\ args.params["limit"] # Absent
    /\ ~args.exclude_params
    /\ Sent.params # NoParams
    /\ Sent.params["limit"] = Absent

----------------------------------------------------------------------------
(* Properties of the managers *)

ProjectListings == {"projects.all", "projects.filter"}

\* C16 (as claimed): a project listing given a tag filter with an element
\* that lacks key, lacks value or has an extra field fails with SnykError
\* before any request is issued, on the manager of an organization and on
\* client.projects.
C16_BadTagsRejectedBeforeAnyRequest ==
    (op \in ProjectListings \cup UnscopedOps /\ ~ValidTags(args.tags))
        => (pc = "raised" /\ exc = "SnykError" /\ calls = <<>>)

\* The entities of a list.
Entities(list) == {list[i] : i \in 1..Len(list)}

\* The ids of the records on the first page of the projects of an
\* organization of the fan-out.
FirstPageIds(org) ==
    {r.id : r \in Entities(server[FirstProjectsPage(org)].data)}

\* C17: every project that all, filter or get of a project manager returns
\* has its organization set, never null: to the organization of the manager,
\* and in the fan-out of client.projects to a listed organization, the one
\* whose project pages hold the project.
C17_ProjectsHaveTheirOrganization ==
    /\ (op \in ProjectListings \cup {"projects.get"})
        => \A x \in Entities(result) \cup Entities(answer.value) :
              x.organization = OrgId
    /\ (op \in UnscopedOps)
        => \A x \in Entities(result) \cup Entities(answer.value) :
              /\ x.organization # Absent
              /\ \E i \in 1..Len(fanout.orgs) : x.organization = IdOf(fanout.orgs[i])
              /\ (x.id \in FirstPageIds("11") \cup FirstPageIds("12"))
                    => x.id \in FirstPageIds(x.organization)

C17_Witness ==
    /\ op = "client.projects.all" /\ pc = "returned"
    /\ Len(result) >= 2
    /\ \E x, y \in Entities(result) :
          /\ x.organization = "11" /\ y.organization = "12"
          /\ x.id \in FirstPageIds("11") /\ y.id \in FirstPageIds("12")

\* C18 (as claimed): get(id) of a collection strategy returns an entity with
\* the id asked for, and when no entity has it (the list all() returned holds
\* none, the server answers the project's own URL with 404) it signals
\* SnykNotFoundError.
C18_GetFindsOrNotFound ==
    answer.method = "get"
        => (/\ pc = "answered"
               => (Len(answer.value) = 1 /\ answer.value[1].id = answer.id)
            /\ (pc = "raised" /\ (calls[Len(calls)].exc = "none"
                                  \/ calls[Len(calls)].status = 404))
               => exc = "SnykNotFoundError")

\* C19: first() returns the first element of the list all() returns, and
\* signals SnykNotFoundError when the list is empty.
C19_FirstIsHeadOfAll ==
    (answer.method = "first" /\ op \in CollectionOps)
        => (/\ pc \in {"answered", "raised"}
            /\ pc = "answered" <=> result # <<>>
            /\ pc = "answered" => answer.value = <<Head(result)>>
            /\ pc = "raised" => (exc = "SnykNotFoundError" /\ answer.value = <<>>))

C19_Witness ==
    /\ answer.method = "first" /\ pc = "answered"
    /\ op = "organizations.all"
    /\ Len(calls) >= 2
    /\ Len(result) >= 2
    /\ answer.value[1].id = result[1].id
    /\ result[Len(result)].id # result[1].id

\* The keywords of a filter, in the other order.
Reversed(kwargs) ==
    [kwargs EXCEPT !.keys = [i \in 1..Len(kwargs.keys) |->
                                kwargs.keys[Len(kwargs.keys) + 1 - i]]]

\* The entity has, under each given keyword, the value given.
Satisfies(x, kwargs) ==
    \A i \in 1..Len(kwargs.keys) : x[kwargs.keys[i]] = kwargs.vals[kwargs.keys[i]]

\* C20: filter(**predicates) returns the entities of all() that have, under
\* every given keyword, the value given, in the order of all(); without
\* predicates it returns all() as it is; the order of the predicates does not
\* matter.
C20_FilterIsExactMatchOfAll ==
    (answer.method = "filter" /\ op \in CollectionOps)
        => (/\ pc = "answered"
            /\ answer.value = SelectSeq(result, LAMBDA x : Satisfies(x, answer.kwargs))
            /\ answer.kwargs.keys = <<>> => answer.value = result
            /\ answer.value = _filter_by_kwargs(result, Reversed(answer.kwargs)))

C20_Witness ==
    /\ answer.method = "filter" /\ pc = "answered"
    /\ op = "dependencies.all"
    /\ Len(answer.kwargs.keys) = 2
    /\ Len(result) >= 2
    /\ Len(answer.value) = 1
    /\ answer.value[1].id = 12

----------------------------------------------------------------------------
(* Properties of get_rest_pages *)

Walking == op = "get_rest_pages"

\* The pages the transport calls of the listing asked for, in order.
Fetched == [i \in 1..Len(calls) |-> PageOf(calls[i].req)]

\* The data arrays of a sequence of pages, one after the other.
RECURSIVE ConcatData(_)
ConcatData(pages) ==
    IF pages = <<>> THEN <<>>
    ELSE server[Head(pages)].data \o ConcatData(Tail(pages))

\* The chain of pages that starts at p: each page served with a non-empty
\* data array, no page twice, no next link equal to the page's self link, the
\* last page without a next link.  <<>> when the pages from p on are no such
\* chain.
RECURSIVE Chain(_, _)
Chain(p, before) ==
    LET body == server[p]
    IN  IF \/ ~body.seen \/ p \in before
           \/ ~body.hasData \/ body.data = <<>>
           \/ (HasNext(body) /\ body.next = body.self)
        THEN <<>>
        ELSE IF ~HasNext(body) THEN <<p>>
        ELSE LET rest == Chain(body.next, before \cup {p})
             IN  IF rest = <<>> THEN <<>> ELSE <<p>> \o rest

\* C4: over a chain of n pages get_rest_pages makes n GET calls, one per page
\* in chain order, and returns the pages' data arrays concatenated in that
\* order.
C4_ChainIsConcatenated ==
    (Walking /\ pc = "returned" /\ Chain(AllPages[1], {}) # <<>>)
        => (/\ Fetched = Chain(AllPages[1], {})
            /\ result = ConcatData(Chain(AllPages[1], {}))
            /\ Len(result) = Len(ConcatData(Fetched)))

C4_Witness ==
    /\ Walking /\ pc = "returned"
    /\ Len(Chain(AllPages[1], {})) = NPages
    /\ NPages >= 2
    /\ ~retried
    /\ Len(calls) = NPages
    /\ Len(result) > Len(server[AllPages[1]].data)

\* C5: while the current page's links.next equals its links.self the walk
\* fetches nothing more: its only step is to return the data accumulated so
\* far.  When that page is the first one, the result is its data and one GET
\* was made.
C5_SelfLinkStops ==
    [][(/\ Walking /\ pc = "loop"
        /\ HasNext(page_data) /\ page_data.next = page_data.self)
          => (/\ pc' = "returned"
              /\ calls' = calls
              /\ result' = return_data
              /\ (Len(calls) = 1 => result' = server[AllPages[1]].data))]_vars

C5_Witness ==
    /\ Walking /\ pc = "returned"
    /\ HasNext(page_data) /\ page_data.next = page_data.self
    /\ Len(calls) = 1
    /\ result = Records(AllPages[1])

\* C6: when the page just followed has no `data` key or an empty `data`
\* array, the walk has returned the records of the pages before it, in order,
\* whatever next link that page carries.
C6_EmptyPageStops ==
    (/\ Walking /\ Len(calls) >= 2
     /\ calls[Len(calls)].exc = "none"
     /\ (~page_data.hasData \/ Len(page_data.data) = 0))
        => (/\ pc = "returned"
            /\ result = ConcatData(SubSeq(Fetched, 1, Len(calls) - 1)))

C6_Witness ==
    /\ Walking /\ pc = "returned" /\ Len(calls) >= 2
    /\ page_data.hasData /\ Len(page_data.data) = 0
    /\ HasNext(page_data) /\ page_data.next # page_data.self
    /\ result # <<>>

\* C7 (as claimed): whatever the links of the server, no page is fetched and
\* merged twice during a walk.
C7_NoPageTwice ==
    Walking => \A i, j \in 1..Len(calls) : Fetched[i] = Fetched[j] => i = j

\* Every next link that leads back to a page the walk has already fetched is
\* equal to the self link of the page that carries it.
BackLinksAreSelfLinks ==
    \A i \in 1..Len(calls) :
        LET body == server[Fetched[i]]
        IN  (/\ body.seen /\ HasNext(body)
             /\ \E j \in 1..i : Fetched[j] = body.next)
                => body.next = body.self

\* C7 (amended): no page is fetched and merged twice as long as every next
\* link that leads back to an already fetched page equals the self link of
\* the page carrying it.
C7_NoPageTwiceBehindSelfLinks ==
    (Walking /\ BackLinksAreSelfLinks) => C7_NoPageTwice

C7_Witness ==
    /\ Walking /\ pc = "returned"
    /\ Len(calls) = 2
    /\ page_data.next = AllPages[1] /\ page_data.self = AllPages[1]
    /\ Fetched[2] = AllPages[2]
    /\ BackLinksAreSelfLinks

\* The walk has come back: the page it has just followed, and taken the data
\* of, is one it had fetched before.
ComesBack ==
    /\ Walking /\ Len(calls) >= 2
    /\ calls[Len(calls)].exc = "none"
    /\ ~NoMoreData(page_data)
    /\ \E i \in 1..(Len(calls) - 1) : Fetched[i] = Fetched[Len(calls)]

\* C8 (as claimed): the walk terminates whatever the links of the server, so
\* it never comes back to a page it went on from before.  A turn of the loop
\* depends on the current page only and the server gives a page the same body
\* every time, so a walk that is back at the head of its loop with a page it
\* was there with before makes the same turns again, and never returns while
\* the server answers.  (Fetching a page again is not enough: a first page
\* with an empty data array is gone on from, and ends the walk when a next
\* link leads back to it.)
C8_TerminatesOnAnyLinks ==
    ~ComesBack

WalkEnded == pc \in {"returned", "raised"}

\* The walk ends, with a list handed over only as it returns, on every server
\* whose next links lead back to an already fetched page only where they equal
\* the self link of the page carrying them.  Each step of the walk either ends
\* it or makes one more GET call; on such a server the calls are never more
\* than the pages, and a walk that has not ended has a step to take: it ends
\* after at most NPages calls.
C8_TerminatesBehindSelfLinks ==
    (Walking /\ BackLinksAreSelfLinks)
        => (/\ Len(calls) <= NPages
            /\ WalkEnded \/ ENABLED (GetRestPagesReturn \/ GetRestPagesFollow)
            /\ pc # "returned" => result = <<>>
            /\ pc = "returned" => result = return_data)

\* The walk ends on every server on which it does not come back: once it has
\* made one GET call more than the server has pages, the last of them for a
\* page fetched before, it has returned or raised.
C8_TerminatesUnlessBack ==
    (Walking /\ ~ComesBack /\ Len(calls) > NPages) => WalkEnded

\* A walk that has come back has not ended and cannot return: the page it is
\* at has a next link that differs from its self link, and that link leads to
\* a page fetched before whose data array is not empty, so that following it
\* the walk has come back once more.
C8_BackGoesRound ==
    ComesBack
        => (/\ pc = "loop" /\ result = <<>>
            /\ HasNext(page_data) /\ ~SameAsSelf(page_data)
            /\ \E i \in 1..Len(calls) : Fetched[i] = page_data.next
            /\ ~NoMoreData(server[page_data.next]))

\* C8 (amended): the walk terminates, with a list handed over only as it
\* returns, on every server whose next links lead back to an already fetched
\* page only where they equal the self link of the page carrying them, and
\* more generally whenever it does not come back to a page with a non-empty
\* data array that it fetched before; when it does come back to one, it goes
\* round for as long as the server answers.
C8_TerminatesUnlessItComesBack ==
    /\ C8_TerminatesBehindSelfLinks
    /\ C8_TerminatesUnlessBack
    /\ C8_BackGoesRound

C8_Witness ==
    /\ Walking /\ pc = "returned"
    /\ Len(calls) = NPages /\ NPages >= 2
    /\ BackLinksAreSelfLinks
    /\ HasNext(page_data) /\ page_data.next = page_data.self
    /\ page_data.next = Fetched[Len(calls)]

\* C9: every follow-up GET of the walk asks for the next link of the page
\* before it as the server gave it (cleanup_path aside), on the base URL of
\* the first request, with no version written into the URL and no params.
C9_NextLinkVerbatim ==
    Walking =>
        \A i \in 2..Len(calls) :
            LET r == calls[i].req
                link == LinkTo(server[Fetched[i - 1]].next)
            IN  /\ r.path = cleanup_path(link)
                /\ r.path.q = link.q
                /\ r.qversion = Absent
                /\ r.params = NoParams
                /\ r.base = calls[1].req.base

C9_Witness ==
    /\ Walking /\ Len(calls) >= 2
    /\ version # Absent
    /\ ~IsEmpty(args.params)
    /\ calls[1].req.params["version"] = version
    /\ calls[2].req.params = NoParams

----------------------------------------------------------------------------
(* Properties of the paginated listings *)

Listings == {"get_rest_pages", "organizations.all", "projects.all",
             "dependencies.all"}

\* C10: when the fetch of a page of a paginated listing fails, that fetch is
\* the last one, the listing raises its exception and the caller gets no
\* list.
C10_NoPartialList ==
    op \in Listings =>
        \A i \in 1..Len(calls) :
            (calls[i].exc # "none" \/ ~Ok(calls[i].status) \/ calls[i].status = NoResponse)
                => (/\ i = Len(calls)
                    /\ pc = "raised"
                    /\ exc = calls[i].exc
                    /\ exc # "none"
                    /\ result = <<>>)

C10_Witness ==
    /\ op \in Listings \ {"get_rest_pages"}
    /\ pc = "raised" /\ exc = "SnykHTTPError"
    /\ Len(calls) >= 2
    /\ return_data # <<>>
    /\ result = <<>>


----------------------------------------------------------------------------
(* Properties of the mapping-shaped strategies *)

DictFilterOps == {strategy \o ".filter" : strategy \in DictStrategies}

\* The mapping the server answered the listing with.
ServedMapping == server[AllPages[1]].data

\* C21, as stated: on the mapping-shaped strategies all() returns the raw
\* mapping of the response, and get, filter and first each end with
\* SnykNotImplementedError, whatever they are given.
C21_DictGetFilterFirstUnsupported ==
    (op \in DictOps \cup DictFilterOps) =>
        /\ (pc = "returned") => (result = ServedMapping)
        /\ (answer.method \in {"get", "filter", "first"}) =>
               (pc = "raised" /\ exc = "SnykNotImplementedError")

\* C21, amended: on the mapping-shaped strategies all() returns the raw
\* mapping of the response; filter ends with SnykNotImplementedError and no
\* request; get(id) returns the value under id, and SnykNotFoundError when
\* the mapping has no such key; first() returns the first item of the
\* mapping, and SnykNotFoundError when the mapping is empty.
C21_DictGetAndFirstAnswer ==
    (op \in DictOps \cup DictFilterOps) =>
        /\ (pc \in {"returned", "answered"}) => (result = ServedMapping)
        /\ (answer.method = "filter") =>
               (pc = "raised" /\ exc = "SnykNotImplementedError" /\ calls = <<>>)
        /\ (answer.method = "get") =>
               IF \E i \in 1..Len(result) : result[i].key = answer.id
               THEN /\ pc = "answered"
                    /\ \E i \in 1..Len(result) :
                         /\ result[i].key = answer.id
                         /\ answer.value = <<result[i].value>>
               ELSE pc = "raised" /\ exc = "SnykNotFoundError"
        /\ (answer.method = "first") =>
               IF Len(result) > 0
               THEN pc = "answered" /\ answer.value = <<result[1]>>
               ELSE pc = "raised" /\ exc = "SnykNotFoundError"

\* get(id) has returned the value of a key that is not the first of the
\* mapping.
C21_Witness ==
    /\ op \in DictOps /\ pc = "answered"
    /\ answer.method = "get"
    /\ Len(result) = 2 /\ result[2].key = answer.id
    /\ answer.value = <<result[2].value>>


----------------------------------------------------------------------------
(* Properties of the singleton strategies *)

SingletonOps(methods) ==
    {strategy \o "." \o method : strategy \in SingletonStrategies, method \in methods}

\* The answer has what the strategy reads: the transport call went through,
\* and the dependency graph is in it.
GoodAnswer ==
    /\ Len(calls) = 1 /\ calls[1].exc = "none"
    /\ server[AllPages[1]].hasData

\* all() or filter() returned the one entity made of the answer.
OneEntity ==
    /\ pc = "returned"
    /\ Len(calls) = 1
    /\ result = <<from_dict(server[AllPages[1]].data[1])>>

\* C22, as stated: on every singleton strategy all() and filter() return
\* exactly one computed entity (given an answer that has what they read),
\* while get(id) and first() end with SnykNotImplementedError and no request.
C22_SingletonAllAndFilterReturnOne ==
    /\ (op \in SingletonOps({"all", "filter"}) /\ pc # "idle") =>
           (GoodAnswer /\ OneEntity) \/ (calls # <<>> /\ ~GoodAnswer)
    /\ (op \in SingletonOps({"get", "first"})) =>
           (pc = "raised" /\ exc = "SnykNotImplementedError" /\ calls = <<>>)

\* C22, amended: on every singleton strategy all() returns exactly one
\* computed entity, and so does filter() on the aggregated issue set; on the
\* dependency graph and the issue paths filter() ends with
\* SnykNotImplementedError and no request, as get(id) and first() do on all
\* three; all() of the dependency graph ends with SnykError when the answer
\* has no `depGraph`.
C22_SingletonFilterOnlyWhereOverridden ==
    /\ (op \in SingletonOps({"all"}) \cup {"aggregated-issues.filter"}) =>
           \/ GoodAnswer /\ OneEntity
           \/ /\ Len(calls) = 1 /\ calls[1].exc # "none"
              /\ pc = "raised" /\ exc = calls[1].exc
           \/ /\ Len(calls) = 1 /\ calls[1].exc = "none"
              /\ op = "dep-graph.all" /\ ~server[AllPages[1]].hasData
              /\ pc = "raised" /\ exc = "SnykError"
    /\ (op \in SingletonOps({"get", "first"})
              \cup {"dep-graph.filter", "paths.filter"}) =>
           (pc = "raised" /\ exc = "SnykNotImplementedError" /\ calls = <<>>)

\* filter() of the aggregated issue set returned its entity.
C22_Witness ==
    /\ op = "aggregated-issues.filter"
    /\ GoodAnswer /\ OneEntity
    /\ calls[1].req.verb = "POST"


----------------------------------------------------------------------------
(* Properties of Manager.factory *)

\* The entity kinds that have a strategy.
KnownKinds ==
    {"Project", "Organization", "Member", "License", "Dependency", "Entitlement",
     "Setting", "Ignore", "JiraIssue", "DependencyGraph", "IssueSet",
     "IssueSetAggregated", "Integration", "IntegrationSetting", "Tag",
     "IssuePaths"}

\* The strategy class of a kind: the one named after it; the issue sets have
\* the aggregated one.
StrategyOf(kind) ==
    IF kind = "IssueSet" THEN "IssueSetAggregatedManager" ELSE kind \o "Manager"

\* C23: factory gives, for each known entity-kind name, as a string or as a
\* class, a manager of the one strategy class of that kind, whatever else it
\* is given; for every other name it ends with SnykError and makes no
\* manager.  It issues no request.
C23_FactoryIsAFixedTable ==
    (op = "factory") =>
        /\ calls = <<>>
        /\ IF answer.kwargs.name \in KnownKinds
           THEN /\ pc = "answered"
                /\ Len(answer.value) = 1
                /\ answer.value[1].class = StrategyOf(answer.kwargs.name)
           ELSE /\ pc = "raised" /\ exc = "SnykError"
                /\ answer.value = <<>>

\* The class of the issue sets was given, and the manager is the aggregated
\* one.
C23_Witness ==
    /\ op = "factory" /\ pc = "answered"
    /\ ~answer.kwargs.isString /\ answer.kwargs.name = "IssueSet"
    /\ answer.value[1].class = "IssueSetAggregatedManager"


----------------------------------------------------------------------------
(* Properties of a sequence of calls with one client *)

\* The request the call would send as the first call of a new client with
\* the same configuration: the defaults of the functions are empty.
AsFirstCall ==
    CASE op = "get" ->
           GetRequest(args.path, args.params, args.v, args.exclude_version,
                      args.exclude_params)
      [] op = "post" -> PostRequest(args.path, args.headers, NoParams, args.use_rest)
      [] op = "put" -> PutRequest(args.path, args.headers, NoParams, args.use_rest)
      [] op = "patch" -> PatchRequest(args.path, args.headers, NoParams)
      [] op = "delete" -> DeleteRequest(args.path, args.use_rest)

\* C24: a transport call made without a `params` argument sends the request
\* that its arguments and the configuration of the client determine, the
\* one it would send as the first call of a new client; nothing of an
\* earlier call (a `version`, say) is in it.
C24_RequestIndependentOfEarlierCalls ==
    (op \in TransportOps /\ pc \in {"returned", "raised"} /\ ~args.given) =>
        (Sent = AsFirstCall)


----------------------------------------------------------------------------
(* Properties of the base URL of a GET *)

\* C25: the GET of get(path, params, version), and the first GET of
\* get_rest_pages, goes to the REST base URL when the client or the call has
\* a version, and to the legacy base URL when neither has.
C25_RestBaseWheneverVersioned ==
    (op \in {"get", "get_rest_pages"} /\ calls # <<>>) =>
        (Sent.base = IF version # Absent \/ args.v # Absent THEN "rest" ELSE "v1")


----------------------------------------------------------------------------
(* Termination of the listings that call themselves *)

\* The listings that follow the `next` key of the links.
LinkListings == {"organizations.all", "projects.all", "projects.filter"}

\* The pages of dependencies fetched so far all report the same total.
ConstantTotal(total) ==
    \A i \in 1..Len(calls) :
        server[AllPages[i]].seen => server[AllPages[i]].total = total

\* C26: the organization listing and the project listing of an organization
\* make at most as many requests as the server has pages, whatever the next
\* links; the dependency listing of a server that reports one total on all
\* its pages makes at most as many requests as that total has pages.  A
\* listing that makes more requests than there are pages is at a page for
\* the second time, and a page never changes: it goes on for ever.
C26_ListingsBoundedByPages ==
    /\ (op \in LinkListings) => (Len(calls) <= NPages)
    /\ (op = "dependencies.all") =>
           \A total \in 0..(3 * ResultsPerPage + 1) :
               (ConstantTotal(total) /\ Len(calls) > 1) =>
                   ((Len(calls) - 1) * ResultsPerPage < total)


----------------------------------------------------------------------------
(* Properties of the dependency listing *)

\* The first n pages, in order.
FirstPages(n) == [i \in 1..n |-> AllPages[i]]

\* The i-th request of the listing went through.
Went(i) == calls[i].exc = "none"

\* C27: DependencyManager.all posts for the pages 1, 2, 3, ... one after the
\* other with perPage=1000; page p + 1 is asked for exactly when the total
\* reported on page p is greater than p * 1000; what is returned is the
\* results of the pages in page order; with a total of at most 1000 there is
\* exactly one request.
C27_DependencyPagesInOrder ==
    (op = "dependencies.all" /\ answer.method = "none") =>
        LET n == Len(calls)
        IN  /\ \A i \in 1..n :
                 /\ calls[i].req.verb = "POST"
                 /\ calls[i].req.path.segs = <<"org", OrgId, "dependencies">>
                 /\ calls[i].req.path.q["page"] = PageNo[i]
                 /\ calls[i].req.path.q["perPage"] = "int:1000"
            /\ \A i \in 1..(n - 1) :
                 Went(i) /\ server[AllPages[i]].total > i * ResultsPerPage
            /\ (pc = "loop") =>
                 /\ Went(n) /\ server[AllPages[n]].total > n * ResultsPerPage
                 /\ cursor.path = DependenciesPath(n + 1)
            /\ (pc = "returned") =>
                 /\ Went(n) /\ server[AllPages[n]].total <= n * ResultsPerPage
                 /\ result = FromDicts(ConcatData(FirstPages(n)))
            /\ (pc = "raised") => ~Went(n)
            /\ (n >= 1 /\ Went(1) /\ server[AllPages[1]].total <= ResultsPerPage) =>
                 (n = 1 /\ pc = "returned")

\* Three pages were asked for, the third because the second reported more
\* than 2000, and the results of all three are returned.
C27_Witness ==
    /\ op = "dependencies.all" /\ pc = "returned"
    /\ Len(calls) = 3
    /\ server[AllPages[2]].total = 2 * ResultsPerPage + 1
    /\ Len(result) = 4


----------------------------------------------------------------------------
(* Properties of the organization listing *)

\* C28: OrganizationManager.all returns the organizations of the pages it
\* fetched, in the order it fetched them; it fetches one more page exactly
\* when the links of the current answer contain `next`; the parameters of
\* that request are those of the request before with the parameters of the
\* next link on top, so that a parameter of the caller is on every page up to
\* the first link that has a parameter of that name.
C28_OrganizationPagesMergeParams ==
    (op = "organizations.all" /\ answer.method = "none") =>
        LET n == Len(calls)
            pages == Fetched
            link == [i \in 1..n |-> extract_query_params(server[pages[i]].next)]
            more == [i \in 1..n |-> server[pages[i]].next # Absent]
        IN  /\ \A i \in 1..n :
                 calls[i].req.verb = "GET" /\ calls[i].req.path = OrgsPath
            /\ \A i \in 2..n :
                 /\ Went(i - 1) /\ more[i - 1]
                 /\ calls[i].req.params =
                        [k \in ParamNames |->
                            IF link[i - 1][k] # Absent
                            THEN link[i - 1][k]
                            ELSE calls[i - 1].req.params[k]]
            /\ \A k \in {"limit", "flag"} :
                 (args.params[k] # Absent) =>
                     \A i \in 1..n :
                         (\A j \in 1..(i - 1) : link[j][k] = Absent)
                             => calls[i].req.params[k] = LowerBool(args.params[k])
            /\ (pc = "loop") =>
                 /\ Went(n) /\ more[n]
                 /\ cursor.path = OrgsPath
            /\ (pc = "returned") =>
                 /\ Went(n) /\ ~more[n]
                 /\ result = FromDicts(ConcatData(pages))
            /\ (pc = "raised") => ~Went(n)

\* Two pages were fetched for a caller that gave a flag and for one that
\* gave a limit: the flag is on the second request, the limit of the link
\* has taken the place of the caller's, and both pages are in the result.
C28_Witness ==
    /\ op = "organizations.all" /\ pc = "returned" /\ answer.method = "none"
    /\ Len(calls) = 2
    /\ Fetched[2] # Fetched[1]
    /\ Len(result) = Len(server[Fetched[1]].data) + Len(server[Fetched[2]].data)
    /\ Len(server[Fetched[2]].data) > 0
    /\ \/ /\ args.params["flag"] = "bool:True"
          /\ calls[2].req.params["flag"] = "str:true"
       \/ /\ args.params["limit"] = "int:50"
          /\ calls[2].req.params["limit"] = "int:10"


----------------------------------------------------------------------------
(* Properties of the project listing without an organization *)

\* The requests of the organization listing come first: how many they are.
OrgCalls ==
    Cardinality({i \in 1..Len(calls) : calls[i].req.path = OrgsPath})

\* The organizations listed, from the pages the organization listing fetched.
ListedOrgs == FromDicts(ConcatData(SubSeq(Fetched, 1, OrgCalls)))

\* The answer to request j ends the project list of an organization: it has
\* no `data`, or no `next` in its links.
EndsList(j) ==
    LET body == server[Fetched[j]]
    IN  ~body.hasData \/ body.next = Absent

\* The place, in the organization listing, of the organization whose
\* projects request i asks for: the first one for the first request after
\* the organization listing, the next one after each list that has ended.
RECURSIVE OrgOf(_)
OrgOf(i) ==
    IF i <= OrgCalls + 1 THEN 1
    ELSE IF EndsList(i - 1) THEN OrgOf(i - 1) + 1 ELSE OrgOf(i - 1)

\* The projects of the requests from i on, each with the organization whose
\* list its page belongs to.
RECURSIVE ProjectsFrom(_)
ProjectsFrom(i) ==
    IF i > Len(calls) THEN <<>>
    ELSE SetOrganization(FromDicts(server[Fetched[i]].data),
                         IdOf(ListedOrgs[OrgOf(i)])) \o ProjectsFrom(i + 1)

\* C29: without an organization the project listing first lists the
\* organizations, then, organization by organization in the order listed,
\* fetches the pages of its projects: the first page, then the pages the
\* next links lead to, and the first page of the following organization only
\* when that list has ended.  What it returns is these lists one after the
\* other, in the order of the organizations.
C29_FanOutIsSequential ==
    (op \in UnscopedOps /\ answer.method = "none") =>
        LET n == Len(calls)
            m == OrgCalls
        IN  /\ \A i \in 1..m : calls[i].req.path = OrgsPath
            /\ \A i \in (m + 1)..n :
                 LET k == OrgOf(i)
                     first == cleanup_path(ProjectsPathOf(IdOf(ListedOrgs[k])))
                     before == server[Fetched[i - 1]]
                 IN  /\ Went(i - 1)
                     /\ server[Fetched[m]].next = Absent
                     /\ k <= Len(ListedOrgs)
                     /\ calls[i].req.path =
                            IF i = m + 1 \/ EndsList(i - 1) \/ before.next = "null"
                            THEN first
                            ELSE cleanup_path(LinkTo(before.next))
            /\ (pc = "returned") =>
                 /\ Went(n)
                 /\ server[Fetched[m]].next = Absent
                 /\ fanout.orgs = ListedOrgs
                 /\ IF ListedOrgs = <<>>
                    THEN n = m
                    ELSE n > m /\ EndsList(n) /\ OrgOf(n) = Len(ListedOrgs)
                 /\ result = ProjectsFrom(m + 1)

\* Two organizations were listed; the projects of the first took two pages,
\* those of the second one page, asked for after both; the result has the
\* projects of the first before those of the second.
C29_Witness ==
    /\ op = "client.projects.all" /\ pc = "returned" /\ answer.method = "none"
    /\ Len(calls) = 4 /\ OrgCalls = 1
    /\ Len(ListedOrgs) = 2
    /\ OrgOf(3) = 1 /\ OrgOf(4) = 2
    /\ Len(server[Fetched[3]].data) > 0 /\ Len(server[Fetched[4]].data) > 0
    /\ result[1].organization = IdOf(ListedOrgs[1])
    /\ result[Len(result)].organization = IdOf(ListedOrgs[2])


----------------------------------------------------------------------------
(* Properties of the `version` parameter of a GET *)

\* How many times a request carries `version`: in the query string its path
\* came with, in the `?version=` that get writes behind the path, and in the
\* params mapping that requests appends to the URL.
VersionCount(req) ==
    (IF req.path.q["version"] # Absent THEN 1 ELSE 0)
    + (IF req.qversion # Absent THEN 1 ELSE 0)
    + (IF req.params["version"] # Absent THEN 1 ELSE 0)

\* C30: no GET carries `version` more than once, in the URL and the params
\* mapping together, whichever of the client and the call has a version, and
\* on the pages a project listing follows next links to.
C30_VersionAtMostOnce ==
    \A i \in 1..Len(calls) :
        (calls[i].req.verb = "GET") => (VersionCount(calls[i].req) <= 1)


----------------------------------------------------------------------------
(* Properties of the `tags` parameter of a project listing *)

\* A tag as a token.
Token(tag) == tag.key \o ":" \o tag.value

\* The tokens of a list of one or two tags, joined by a comma in the order
\* of the list.
Rendered(tags) ==
    IF Len(tags) = 1 THEN Token(tags[1])
    ELSE Token(tags[1]) \o "," \o Token(tags[2])

\* C31: a project listing filtered with a valid list of tags sends, on every
\* request for projects (the first page, the pages of followed next links,
\* the requests for each organization of the listing without an
\* organization), a `tags` parameter that is the tags as key:value tokens
\* joined by commas in the order given.
C31_TagsOnEveryProjectRequest ==
    (/\ op \in {"projects.filter", "client.projects.filter"}
     /\ args.tags # <<>> /\ ValidTags(args.tags)) =>
        \A i \in 1..Len(calls) :
            (calls[i].req.path # OrgsPath) =>
                (calls[i].req.params["tags"] = "str:" \o Rendered(args.tags))

====
